---- MODULE Spec2Model ----
(***************************************************************************)
(* A model of the transfer-function-editor widgets: the stop collections   *)
(* of the ColorMapEditor and the TransparencyEditor, their mouse handlers  *)
(* and setters, the TransferFunctionEditor that couples the two, and the   *)
(* listener protocol of every widget class.                                *)
(*                                                                         *)
(* Numbers.  A stop position is an integer count of Eps, where Eps stands  *)
(* for Number.EPSILON; the position 1.0 is One.  One canvas pixel is Pixel *)
(* units wide, so a position that the neighbour clamp produces (neighbour  *)
(* +- Eps) lies between two pixels.  An alpha value is an integer count of *)
(* half canvas rows; the alpha 1.0 is AlphaOne.  A colour is one channel   *)
(* with a level in 0 .. ColorMax and the notation it is written in.        *)
(***************************************************************************)
EXTENDS Integers, Sequences, FiniteSets, TLC

\* ------------------------------------------------------------------ bounds
\* The significant bits of a number.  IEEE 754 doubles have 53; with 5 bits the
\* quotients by 3, 5, 6 and 7 round the same way, their binary expansions
\* having periods that divide 53 - 5.
Mantissa == 5
CanvasWidth == 2
CanvasHeight == 1
MaxStops == 3
MaxListeners == 2
\* How often the colour picker is opened.
MaxPopups == 3
MaxMoveListeners == 2
ColorMax == 2
MaxValue == 2
\* How far from 0 and from 360 degrees the wheel of the hue field is turned.
WheelReach == 1

\* --------------------------------------------------------- program constants
\* Number.EPSILON, the unit of a position.
Eps == 1
\* The option controlPointSize, in pixels; the editors are constructed with 1
\* where the default is 7, so that a canvas of CanvasWidth pixels has room
\* for stops that do not cover each other.
controlPointSize == 1
\* The default of the option bins.
DefaultBins == 7

Pixel == 2 * Eps
One == CanvasWidth * Pixel
Row == 1 + 1
AlphaOne == CanvasHeight * Row

Max(a, b) == IF a >= b THEN a ELSE b
Min(a, b) == IF a <= b THEN a ELSE b

\* JavaScript arrays are 0-based; a TLA+ sequence is 1-based.
Has(s, i) == i >= 0 /\ i < Len(s)
At(s, i) == s[i + 1]
Splice(s, i) == [k \in 1..(Len(s) - 1) |-> IF k <= i THEN s[k] ELSE s[k + 1]]

\* Array.prototype.sort((a, b) => a.stop - b.stop): a stable sort by stop.
RECURSIVE InsertByStop(_, _)
InsertByStop(sorted, e) ==
  IF sorted = <<>> THEN <<e>>
  ELSE IF sorted[Len(sorted)].stop <= e.stop THEN Append(sorted, e)
  ELSE Append(InsertByStop(SubSeq(sorted, 1, Len(sorted) - 1), e), sorted[Len(sorted)])

RECURSIVE SortByStop(_)
SortByStop(s) ==
  IF s = <<>> THEN <<>>
  ELSE InsertByStop(SortByStop(SubSeq(s, 1, Len(s) - 1)), s[Len(s)])

sortControlPoints(s) == SortByStop(s)

\* A delete that leaves the Map as it is.
MapKeep(cbs, id) == cbs

\* Map.prototype.delete on a Map that is kept as its keys in insertion order.
MapDelete(cbs, id) == SelectSeq(cbs, LAMBDA c : c # id)
\* The keys of that Map.
Keys(cbs) == {cbs[k] : k \in 1..Len(cbs)}

VARIABLES
  widget,             \* the class that was constructed
  options,            \* the options that the constructor was given
  returned,           \* what the last call of a query method returned
  picker,             \* ColorPicker: hsv, backUpHue, backUpSaturation, callback and drag listeners
  callbackBodies,     \* what the listener registered under an id does when it is invoked
  cmePopup,           \* ColorMapEditor closure variable colorPickerListener; the listeners of its colorPicker
  colorStops,         \* ColorMapEditor.colorStops
  cmeSettings,        \* ColorMapEditor.interpolationMethod, discrete and bins
  cmeInputs,          \* the select, the checkbox and the number input of a ColorMapEditor
  cmeDrag,            \* ColorMapEditor closure variables isDragging, dragIndex, draggedBefore
  cmeCallbacks,       \* ColorMapEditor.callbacks, in insertion order
  cmeCallbackCounter, \* ColorMapEditor.callbackCounter
  alphaStops,         \* TransparencyEditor.alphaStops
  alphaRange,         \* the domain and the range of TransparencyEditor.alphaRange
  colorMap,           \* TransparencyEditor.colorMap
  colorRangeCache,    \* convert.ts: the scale that colorRangeCache holds for that object
  teIsDragging,       \* TransparencyEditor closure variable isDragging
  teDragIndex,        \* TransparencyEditor closure variable dragIndex
  teCallbacks,        \* TransparencyEditor.callbacks, in insertion order
  teCallbackCounter,  \* TransparencyEditor.callbackCounter
  tfeCallbacks,       \* TransferFunctionEditor.callbacks, in insertion order
  tfeCallbackCounter, \* TransferFunctionEditor.callbackCounter
  nifValue,           \* NumberInputField.value
  nifInput,           \* NumberInputField.input.valueAsNumber, NaN for an empty field
  nifCallbacks,       \* NumberInputField.callbacks, in insertion order
  nifCallbackCounter, \* NumberInputField.callbackCounter
  moveListeners,      \* the owners of the document's mousemove listeners, in attachment order
  notified,           \* the rounds of listener invocations of the last operation
  threw,              \* the last operation raised a TypeError
  removed,            \* the ids whose callback a removeListener call has deleted
  lastOp              \* the last operation and, for a removal, whether it was aimed at an end stop

CmeVars == <<colorStops, cmeSettings, cmeInputs, cmeDrag, cmeCallbacks, cmeCallbackCounter>>
TeVars == <<alphaStops, alphaRange, colorMap, colorRangeCache, teIsDragging, teDragIndex, teCallbacks, teCallbackCounter>>
TfeVars == <<tfeCallbacks, tfeCallbackCounter>>
NifVars == <<nifValue, nifInput, nifCallbacks, nifCallbackCounter>>
vars == <<widget, picker, cmePopup, callbackBodies, options, returned, CmeVars, TeVars, TfeVars, NifVars, moveListeners, notified, threw, removed,
          lastOp>>

\* A constructor called without its options argument.
NoOptions == [undefined |-> TRUE]

\* No query method was called yet.
NoReturn == [op |-> "none", arg |-> 0, value |-> <<>>, again |-> FALSE]

\* A listener is a function of the caller.  When it is invoked it reads the
\* editor, or it calls addListener or removeListener of the editor that
\* invoked it.
Reads == [does |-> "reads"]
Adds == [does |-> "addListener"]
Removes(id) == [does |-> "removeListener", id |-> id]
\* let colorPickerListener = -1, and a colour picker without listeners.  A
\* listener of the picker is its id and the index of the stop it captured.
NoPopup == [colorPickerListener |-> 0 - 1, callbacks |-> <<>>, callbackCounter |-> 0]
\* No listener was registered with a body of its own.
NoBodies == [id \in {} |-> Reads]

\* The classes that own a ColorMapEditor and a TransparencyEditor.
HasCme == widget \in {"ColorMapEditor", "TransferFunctionEditor"}
HasTe == widget \in {"TransparencyEditor", "TransferFunctionEditor"}

\* ------------------------------------------------------------------ values
AlphaStop(s, a) == [stop |-> s, alpha |-> a]
ColorStop(s, c) == [stop |-> s, color |-> c]
\* The notations of a colour: "css" as the caller wrote it, "rgb" as d3's
\* interpolators print it.
Css(v) == [v |-> v, fmt |-> "css"]
Rgb(v) == [v |-> v, fmt |-> "rgb"]
\* A JavaScript number | undefined.
Num(n) == [num |-> n]
NaN == [nan |-> TRUE]
Undefined == [undefined |-> TRUE]
Truthy(n) == n \notin {NaN, Undefined, Num(0)}

\* What a callback can read from the editor it is handed.
CmeView(stops, settings) ==
  [colorStops |-> stops, interpolationMethod |-> settings.interpolationMethod,
   discrete |-> settings.discrete, bins |-> settings.bins]
TeView(stops, cm) == [alphaStops |-> stops, colorMap |-> cm]

\* ColorMapEditor.getColorMap.
getColorMap(stops, settings) ==
  [colorStops |-> stops, interpolationMethod |-> settings.interpolationMethod,
   discrete |-> IF settings.discrete = "true" THEN "true" ELSE "undefined",
   bins |-> IF settings.discrete = "true" THEN settings.bins ELSE Undefined]

\* getColorRange on a colour map that colorRangeCache does not hold yet: the
\* d3 scale over copies of the positions and the colours of its stops, with
\* the interpolator of its method.
getColorRange(cm) ==
  [colorStops |-> cm.colorStops, interpolationMethod |-> cm.interpolationMethod]

\* ------------------------------------------------------------ notification
\* An addListener that registers the callback without calling it.
AddListenerSilent(cls, id, seen) == <<>>

\* addListener: callback(this), once, for the callback that is being added.
AddListenerRound(cls, id, seen) == <<[cls |-> cls, ids |-> <<id>>, seen |-> seen]>>

\* callbacks.forEach((value) => value(this)): one round, in insertion order.
Round(cls, cbs, seen) == <<[cls |-> cls, ids |-> cbs, seen |-> seen]>>

\* TransparencyEditor.sendUpdate.  In a TransferFunctionEditor the one callback
\* of the TransparencyEditor runs the callbacks of the TransferFunctionEditor.
TeSendUpdate(stops, cm) ==
  Round("TransparencyEditor", teCallbacks, TeView(stops, cm))
    \o (IF widget = "TransferFunctionEditor"
        THEN Round("TransferFunctionEditor", tfeCallbacks, TeView(stops, cm))
        ELSE <<>>)

\* ColorMapEditor.sendUpdates.  In a TransferFunctionEditor the one callback of
\* the ColorMapEditor hands getColorMap() to TransparencyEditor.setColorMap.
CmeSendUpdates(stops, settings, aStops) ==
  Round("ColorMapEditor", cmeCallbacks, CmeView(stops, settings))
    \o (IF widget = "TransferFunctionEditor"
        THEN TeSendUpdate(aStops, getColorMap(stops, settings))
        ELSE <<>>)

\* TransparencyEditor.colorMap after a round of the ColorMapEditor's callbacks.
Forwarded(stops, settings, cm) ==
  IF widget = "TransferFunctionEditor" THEN getColorMap(stops, settings) ELSE cm

\* The scale that is cached for the TransparencyEditor's colour map after the
\* ColorMapEditor's listeners ran: setColorMap draws, and drawing samples the
\* new object that getColorMap made.
Recached(cm) ==
  IF widget = "TransferFunctionEditor" THEN getColorRange(cm) ELSE colorRangeCache

\* What the listeners of one mousemove event work on, one after the other.
MoveState(aStops, aRange, cStops, cm, dragged) ==
  [alphaStops |-> aStops, alphaRange |-> aRange, colorStops |-> cStops, colorMap |-> cm,
   draggedBefore |-> dragged, notified |-> <<>>, threw |-> FALSE]

\* AbortController.abort() removes the listener that the owner attached last.
RECURSIVE Abort(_, _)
Abort(ls, owner) ==
  IF ls = <<>> THEN <<>>
  ELSE IF ls[Len(ls)] = owner THEN SubSeq(ls, 1, Len(ls) - 1)
  ELSE Append(Abort(SubSeq(ls, 1, Len(ls) - 1), owner), ls[Len(ls)])

\* A call of a method that only reads: it returns a value, or it throws, and
\* it calls no listener.  `again` tells that the call before was the same call.
Query(op, arg, value, thrown) ==
  /\ returned' = [op |-> op, arg |-> arg, value |-> IF thrown THEN <<>> ELSE value,
                  again |-> lastOp = op /\ returned.arg = arg]
  /\ notified' = <<>>
  /\ threw' = thrown
  /\ lastOp' = op
  /\ UNCHANGED <<widget, picker, cmePopup, callbackBodies, options, CmeVars, TeVars, TfeVars, NifVars, moveListeners, removed>>

\* ------------------------------------------------------ TransparencyEditor
TeDefaultAlphaStops ==
  <<AlphaStop(0, 0), AlphaStop(One \div 2, AlphaOne \div 2), AlphaStop(One, AlphaOne)>>
TeDefaultColorMap ==
  [colorStops |-> <<ColorStop(0, Css(0)), ColorStop(One, Css(0))>>,
   interpolationMethod |-> "RGB", discrete |-> "undefined", bins |-> Undefined]

pixelToNormalized(x, y) ==
  [stop |-> Max(0, Min(One, x * Pixel)),
   alpha |-> Max(0, Min(AlphaOne, AlphaOne - y * Row))]

\* sqrt(dx * dx + dy * dy) < controlPointSize, with dx = stop * width - x and
\* dy = (1 - alpha) * height - y, scaled by Pixel * Row to stay in integers.
TeHit(p, x, y) ==
  LET dx == p.stop - x * Pixel
      dy == (AlphaOne - p.alpha) - y * Row
  IN  Row * Row * dx * dx + Pixel * Pixel * dy * dy
        < Pixel * Pixel * Row * Row * controlPointSize * controlPointSize

\* The first index in from..to whose control point is hit, or -1.
RECURSIVE TeFirstHit(_, _, _, _, _)
TeFirstHit(stops, from, to, x, y) ==
  IF from > to THEN 0 - 1
  ELSE IF TeHit(At(stops, from), x, y) THEN from
  ELSE TeFirstHit(stops, from + 1, to, x, y)

\* checkDragStart: dragIndex and isDragging; it attaches a mousemove listener
\* to the document whenever it leaves isDragging set.
TeCheckDragStart(stops, dragging, x, y) ==
  LET i == TeFirstHit(stops, 0, Len(stops) - 1, x, y)
  IN  [dragIndex |-> i, isDragging |-> (dragging \/ i # 0 - 1)]

\* A clamp that puts every dragged stop next to its left neighbour.
TeSnapToLeft(left, right, stop) == left + Eps

TeClampStop(left, right, stop) == Max(left + Eps, Min(right - Eps, stop))

\* A mousemove listener that moves every dragged stop to the pointer, the first
\* and the last one too.
TeDragToPointer(stops, i, x, y) ==
  LET n == pixelToNormalized(x, y) IN
  IF Has(stops, i)
  THEN [alphaStops |-> [stops EXCEPT ![i + 1] = AlphaStop(n.stop, n.alpha)], threw |-> FALSE]
  ELSE [alphaStops |-> stops, threw |-> TRUE]

\* One run of the mousemove listener: the stops it leaves and whether it threw.
TeDragTo(stops, i, x, y) ==
  LET n == pixelToNormalized(x, y) IN
  IF i = 0 \/ i = Len(stops) - 1
  THEN IF Has(stops, i)
       THEN [alphaStops |-> [stops EXCEPT ![i + 1].alpha = n.alpha], threw |-> FALSE]
       ELSE [alphaStops |-> stops, threw |-> TRUE]
  ELSE IF ~Has(stops, i - 1) \/ ~Has(stops, i + 1)
       THEN [alphaStops |-> stops, threw |-> TRUE]
       ELSE [alphaStops |->
               [stops EXCEPT ![i + 1] =
                  AlphaStop(TeClampStop(At(stops, i - 1).stop, At(stops, i + 1).stop, n.stop),
                            n.alpha)],
             threw |-> FALSE]

\* updateAlphaRange: the scale gets a copy of the positions as its domain and
\* a copy of the alphas as its range.
updateAlphaRange(stops) ==
  [k \in 1..Len(stops) |-> AlphaStop(stops[k].stop, stops[k].alpha)]

\* The mousemove listener of a TransparencyEditor.
TeMoveStep(st, x, y) ==
  LET r == TeDragTo(st.alphaStops, teDragIndex, x, y)
  IN  [st EXCEPT !.alphaStops = r.alphaStops,
                 !.alphaRange = IF r.threw THEN @ ELSE updateAlphaRange(r.alphaStops),
                 !.notified = @ \o (IF r.threw THEN <<>>
                                    ELSE TeSendUpdate(r.alphaStops, st.colorMap)),
                 !.threw = @ \/ r.threw]

TeInit ==
  /\ alphaStops = sortControlPoints(TeDefaultAlphaStops)
  /\ alphaRange = updateAlphaRange(alphaStops)
  /\ colorMap = TeDefaultColorMap
  /\ colorRangeCache = getColorRange(TeDefaultColorMap)
  /\ teIsDragging = FALSE
  /\ teDragIndex = 0 - 1
  /\ teCallbacks = <<>>
  /\ teCallbackCounter = 0

TeDragVars == <<teIsDragging, teDragIndex>>
TeListenerVars == <<teCallbacks, teCallbackCounter>>
NotTe == <<widget, picker, cmePopup, callbackBodies, options, returned, CmeVars, TfeVars, NifVars, removed>>
TeIdle == <<TeDragVars, moveListeners>>

TeAddListener ==
  /\ widget = "TransparencyEditor"
  /\ teCallbackCounter < MaxListeners
  /\ teCallbacks' = Append(teCallbacks, teCallbackCounter)
  /\ teCallbackCounter' = teCallbackCounter + 1
  /\ notified' = AddListenerRound("TransparencyEditor", teCallbackCounter,
                                  TeView(alphaStops, colorMap))
  /\ threw' = FALSE
  /\ lastOp' = "te.addListener"
  /\ UNCHANGED <<NotTe, alphaStops, alphaRange, colorMap, colorRangeCache, TeIdle>>

TeRemoveListener(id) ==
  /\ widget = "TransparencyEditor"
  /\ teCallbacks' = MapDelete(teCallbacks, id)
  /\ removed' = removed \cup ({id} \cap Keys(teCallbacks))
  /\ notified' = <<>>
  /\ threw' = FALSE
  /\ lastOp' = "te.removeListener"
  /\ UNCHANGED <<widget, picker, cmePopup, callbackBodies, options, returned, CmeVars, TfeVars, NifVars, alphaStops, alphaRange,
                 colorMap, colorRangeCache, TeIdle,
                 teCallbackCounter>>

TeAddControlPoint(stop, alpha) ==
  /\ widget = "TransparencyEditor"
  /\ Len(alphaStops) < MaxStops
  /\ alphaStops' = sortControlPoints(Append(alphaStops, AlphaStop(stop, alpha)))
  /\ alphaRange' = updateAlphaRange(alphaStops')
  /\ notified' = TeSendUpdate(alphaStops', colorMap)
  /\ threw' = FALSE
  /\ lastOp' = IF stop < 0 \/ stop > One THEN "te.addControlPoint.outside"
                ELSE "te.addControlPoint"
  /\ UNCHANGED <<NotTe, colorMap, colorRangeCache, TeIdle, TeListenerVars>>

\* A removal whose loop runs over every index, the first and the last one too.
TeRemovedAnywhere(stops, x, y) ==
  LET i == TeFirstHit(stops, 0, Len(stops) - 1, x, y)
  IN  IF i # 0 - 1 THEN Splice(stops, i) ELSE stops

\* removeControlPointAt: the first hit among the indices 1 .. length - 2.
TeRemoved(stops, x, y) ==
  LET i == TeFirstHit(stops, 1, Len(stops) - 2, x, y)
  IN  IF i # 0 - 1 THEN Splice(stops, i) ELSE stops

\* The click lies on the first or the last control point and on no other one.
TeAimedAtEnd(stops, x, y) ==
  /\ stops # <<>>
  /\ TeHit(stops[1], x, y) \/ TeHit(stops[Len(stops)], x, y)
  /\ TeFirstHit(stops, 1, Len(stops) - 2, x, y) = 0 - 1

\* updateAlphaRange runs only when removeControlPointAt removed a stop.
TeRemoveRange(stops, range, x, y) ==
  IF TeRemoved(stops, x, y) # stops THEN updateAlphaRange(TeRemoved(stops, x, y)) ELSE range

TeRemoveNotified(stops, x, y) ==
  IF TeRemoved(stops, x, y) # stops THEN TeSendUpdate(TeRemoved(stops, x, y), colorMap)
  ELSE <<>>

TeRemoveControlPointAt(x, y) ==
  /\ widget = "TransparencyEditor"
  /\ alphaStops' = TeRemoved(alphaStops, x, y)
  /\ alphaRange' = TeRemoveRange(alphaStops, alphaRange, x, y)
  /\ notified' = TeRemoveNotified(alphaStops, x, y)
  /\ threw' = FALSE
  /\ lastOp' = IF TeAimedAtEnd(alphaStops, x, y) THEN "te.removeControlPointAt.end"
               ELSE "te.removeControlPointAt"
  /\ UNCHANGED <<NotTe, colorMap, colorRangeCache, TeIdle, TeListenerVars>>

\* TransparencyEditor.setAlphaStops, which TransferFunctionEditor.setAlphaStops calls.
TeSetAlphaStops(arr) ==
  /\ HasTe
  /\ alphaStops' = sortControlPoints(arr)
  /\ alphaRange' = updateAlphaRange(alphaStops')
  /\ notified' = TeSendUpdate(alphaStops', colorMap)
  /\ threw' = FALSE
  /\ lastOp' = "te.setAlphaStops"
  /\ UNCHANGED <<NotTe, colorMap, colorRangeCache, TeIdle, TeListenerVars>>

TeSetColorMap(cm) ==
  /\ widget = "TransparencyEditor"
  /\ colorMap' = cm
  /\ colorRangeCache' = getColorRange(cm)
  /\ notified' = TeSendUpdate(alphaStops, cm)
  /\ threw' = FALSE
  /\ lastOp' = "te.setColorMap"
  /\ UNCHANGED <<NotTe, alphaStops, alphaRange, TeIdle, TeListenerVars>>

\* The canvas mousedown listener.
TeMouseDown(button, x, y) ==
  /\ HasTe
  /\ LET first == IF button = 0 THEN TeCheckDragStart(alphaStops, teIsDragging, x, y)
                  ELSE [dragIndex |-> teDragIndex, isDragging |-> teIsDragging]
     IN  IF first.isDragging
         THEN /\ teIsDragging' = first.isDragging
              /\ teDragIndex' = first.dragIndex
              /\ moveListeners' = IF button = 0 THEN Append(moveListeners, "te")
                                  ELSE moveListeners
              /\ UNCHANGED <<alphaStops, alphaRange>>
              /\ notified' = <<>>
         ELSE IF button = 0
         THEN LET n == pixelToNormalized(x, y)
                  added == sortControlPoints(Append(alphaStops, AlphaStop(n.stop, n.alpha)))
                  second == TeCheckDragStart(added, first.isDragging, x, y)
              IN  /\ Len(alphaStops) < MaxStops
                  /\ alphaStops' = added
                  /\ alphaRange' = updateAlphaRange(added)
                  /\ notified' = TeSendUpdate(added, colorMap)
                  /\ teIsDragging' = second.isDragging
                  /\ teDragIndex' = second.dragIndex
                  /\ moveListeners' = IF second.isDragging THEN Append(moveListeners, "te")
                                      ELSE moveListeners
         ELSE /\ alphaStops' = TeRemoved(alphaStops, x, y)
              /\ alphaRange' = TeRemoveRange(alphaStops, alphaRange, x, y)
              /\ notified' = TeRemoveNotified(alphaStops, x, y)
              /\ UNCHANGED TeIdle
  /\ Len(moveListeners') <= MaxMoveListeners
  /\ threw' = FALSE
  /\ lastOp' = IF button = 0 THEN "te.mousedown.left"
               ELSE IF TeAimedAtEnd(alphaStops, x, y) THEN "te.mousedown.right.end"
               ELSE "te.mousedown.right"
  /\ UNCHANGED <<NotTe, colorMap, colorRangeCache, TeListenerVars>>

\* ---------------------------------------------------------------- convert
\* Math.round of num / den for den > 0.
RoundDiv(num, den) == (2 * num + den) \div (2 * den)

\* A scale that maps every position along its first segment.
SegmentFirst(stops, p, q) == 1

\* d3's polymap: the segment that bisect(domain, x, 1, n - 1) - 1 selects for
\* the position p / q, as an index of the segment's left stop.
Segment(stops, p, q) ==
  1 + Cardinality({k \in 2..(Len(stops) - 1) : stops[k].stop * q <= p})

\* The d3 scale over the stops at the position p / q (q > 0): d3 normalizes a
\* segment of length zero to the constant 0.5, it extrapolates outside the
\* domain, and the colour is printed with its channel clamped.
ScaleAt(stops, p, q) ==
  IF Len(stops) = 0 THEN Rgb(0)
  ELSE IF Len(stops) = 1 THEN Rgb(stops[1].color.v)
  ELSE LET i == Segment(stops, p, q)
           a == stops[i]
           b == stops[i + 1]
           den == b.stop - a.stop
           delta == b.color.v - a.color.v
       IN  IF den = 0 THEN Rgb(RoundDiv(a.color.v + b.color.v, 2))
           ELSE IF den > 0
           THEN Rgb(Max(0, Min(ColorMax,
                  a.color.v + RoundDiv(delta * (p - a.stop * q), q * den))))
           ELSE Rgb(Max(0, Min(ColorMax,
                  a.color.v + RoundDiv((0 - delta) * (p - a.stop * q), q * (0 - den)))))

\* The scale at +Infinity (sign = 1) or -Infinity (sign = -1).
ScaleAtInfinity(stops, sign) ==
  IF Len(stops) = 0 THEN Rgb(0)
  ELSE IF Len(stops) = 1 THEN Rgb(stops[1].color.v)
  ELSE LET i == IF sign > 0 THEN Len(stops) - 1 ELSE 1
           a == stops[i]
           b == stops[i + 1]
           slope == sign * (b.color.v - a.color.v) * (b.stop - a.stop)
       IN  IF b.stop = a.stop THEN Rgb(RoundDiv(a.color.v + b.color.v, 2))
           ELSE IF slope = 0 THEN Rgb(a.color.v)
           ELSE IF slope > 0 THEN Rgb(ColorMax)
           ELSE Rgb(0)

\* What the scale returns for NaN: its unknown value, undefined.
UnknownColor == [v |-> 0, fmt |-> "undefined"]

\* getColorFromColorMapAt(colorMap, value) for value = x / One.
getColorFromColorMapAt(cm, x) ==
  IF cm.discrete = "true" /\ Truthy(cm.bins)
  THEN LET bins == cm.bins.num
           k == (x * bins) \div One
       IN  IF bins = 1
           THEN IF k = 0 THEN UnknownColor
                ELSE ScaleAtInfinity(cm.colorStops, IF k > 0 THEN 1 ELSE 0 - 1)
           ELSE IF bins > 1 THEN ScaleAt(cm.colorStops, k * One, bins - 1)
           ELSE ScaleAt(cm.colorStops, (0 - k) * One, 1 - bins)
  ELSE ScaleAt(cm.colorStops, x, 1)

\* A position handed to the scale: the number p / q in units of Eps, NaN, or
\* an infinity.
Finite(p, q) == [p |-> p, q |-> q]
Infinity(sign) == [infinity |-> sign]
IsFinite(pos) == DOMAIN pos = {"p", "q"}

\* The JavaScript division k / d of two integers.
Quotient(k, d) ==
  IF d = 0 THEN (IF k = 0 THEN NaN ELSE Infinity(IF k > 0 THEN 1 ELSE 0 - 1))
  ELSE IF d > 0 THEN Finite(k, d)
  ELSE Finite(0 - k, 0 - d)

\* colorRange(position).
ColorRangeAt(stops, pos) ==
  IF pos = NaN THEN UnknownColor
  ELSE IF IsFinite(pos) THEN ScaleAt(stops, pos.p, pos.q)
  ELSE ScaleAtInfinity(stops, pos.infinity)

\* Math.floor(value * colorMap.bins) / (colorMap.bins - 1) for value = x / One:
\* the position that getColorFromColorMapAt hands to the scale.
SamplePosition(cm, x) ==
  IF cm.discrete = "true" /\ Truthy(cm.bins)
  THEN Quotient(((x * cm.bins.num) \div One) * One, cm.bins.num - 1)
  ELSE Finite(x, 1)

\* JavaScript numbers are binary floating point numbers: the result of every
\* arithmetic operation is rounded to the nearest number that has Mantissa
\* significant bits, a tie to the even one.  The bounds of a bin are counted
\* in units of Eps / Fine, which resolves every number that occurs.
Fine == 2 ^ (Mantissa + 3)
Exponent(x) == CHOOSE e \in 0..29 : 2 ^ e <= x /\ x < 2 ^ (e + 1)
Quantum(x) == IF x >= 2 ^ Mantissa THEN 2 ^ (Exponent(x) - Mantissa + 1) ELSE 1
RoundTo(num, den, q) ==
  LET f == num \div (den * q)
      r == num % (den * q)
  IN  q * (IF 2 * r > den * q \/ (2 * r = den * q /\ f % 2 = 1) THEN f + 1 ELSE f)
\* The floating point number nearest to num / den, for den > 0.
Fl(num, den) ==
  IF num = 0 THEN 0
  ELSE IF num > 0 THEN RoundTo(num, den, Quantum(Max(num \div den, 1)))
  ELSE 0 - RoundTo(0 - num, den, Quantum(Max((0 - num) \div den, 1)))

\* Math.floor(center * colorMap.bins) / (colorMap.bins - 1): the position that
\* getColorMapBins hands to the scale for a bin.
BinPosition(cm, center) ==
  Quotient((Fl(center * cm.bins.num, 1) \div (One * Fine)) * One, cm.bins.num - 1)

\* One entry of getColorMapBins: the body of its loop for the index i.
ColorMapBin(cm, min, binSize, i) ==
  LET lowerBound == Fl(min + Fl(i * binSize, 1), 1)
      upperBound == Fl(lowerBound + binSize, 1)
      center == Fl(Fl(lowerBound + upperBound, 1), 2)
  IN  [lowerBound |-> lowerBound, center |-> center, upperBound |-> upperBound,
       color |-> ColorRangeAt(cm.colorStops, BinPosition(cm, center))]

\* getColorMapBins(colorMap); the colour map has a stop.
getColorMapBins(cm) ==
  IF cm.discrete # "true" \/ ~Truthy(cm.bins) THEN <<>>
  ELSE LET min == cm.colorStops[1].stop * Fine
           max == cm.colorStops[Len(cm.colorStops)].stop * Fine
           range == Fl(max - min, 1)
           binSize == Fl(range, cm.bins.num)
       IN  [i \in 1..cm.bins.num |-> ColorMapBin(cm, min, binSize, i - 1)]

\* ------------------------------------------- TransparencyEditor: sampling
\* An alpha value: the number num / den, in units of half rows.
Alpha(num, den) == [num |-> num, den |-> den]

\* alphaRange(stop) for stop = x / One: the d3 scale over the alpha stops.  It
\* interpolates linearly inside the segment that the position selects and
\* along the first or the last segment outside the domain; a segment of
\* length zero gives the mean of its alphas, and fewer than two stops NaN.
getAlpha(range, x) ==
  IF Len(range) < 2 THEN NaN
  ELSE LET i == Segment(range, x, 1)
           a == range[i]
           b == range[i + 1]
           den == b.stop - a.stop
       IN  IF den = 0 THEN Alpha(a.alpha + b.alpha, 2)
           ELSE IF den > 0
           THEN Alpha(a.alpha * den + (b.alpha - a.alpha) * (x - a.stop), den)
           ELSE Alpha(a.alpha * (0 - den) + (a.alpha - b.alpha) * (x - a.stop), 0 - den)

\* getRGB(stop).
getRGB(cm, x) == getColorFromColorMapAt(cm, x)

\* The colour map as getColorFromColorMapAt reads it: the stops and the
\* interpolator of the cached scale, discrete and bins of the object.
Sampled(cm, cached) ==
  [cm EXCEPT !.colorStops = cached.colorStops,
             !.interpolationMethod = cached.interpolationMethod]

\* hex(opacity * 255) of formatHex8: the opacity as a channel level, rounded
\* and clamped to the levels of a channel; NaN counts as opaque.
OpacityLevel(alpha) ==
  IF alpha = NaN THEN ColorMax
  ELSE Max(0, Min(ColorMax, RoundDiv(alpha.num * ColorMax, alpha.den * AlphaOne)))

\* getRGBA(stop): d3Color.rgb(getRGB(stop)) with its opacity set to
\* getAlpha(stop), written as #rrggbbaa.
getRGBA(range, cm, x) ==
  [v |-> getRGB(cm, x).v, opacity |-> OpacityLevel(getAlpha(range, x)), fmt |-> "hex8"]

TeGetAlpha(x) ==
  /\ widget = "TransparencyEditor"
  /\ Query("te.getAlpha", x, getAlpha(alphaRange, x), FALSE)

TeGetRGB(x) ==
  /\ widget = "TransparencyEditor"
  /\ Query("te.getRGB", x, getRGB(Sampled(colorMap, colorRangeCache), x), FALSE)

TeGetRGBA(x) ==
  /\ widget = "TransparencyEditor"
  /\ Query("te.getRGBA", x, getRGBA(alphaRange, Sampled(colorMap, colorRangeCache), x), FALSE)

\* ----------------------------------------------------------- ColorMapEditor
CmeDefaultColorStops ==
  <<ColorStop(0, Css(0)), ColorStop(One \div 2, Css(ColorMax \div 2)),
    ColorStop(One, Css(ColorMax))>>
CmeDefaultSettings ==
  [interpolationMethod |-> "HSL", discrete |-> "false", bins |-> Num(DefaultBins)]

\* The controls as setUpInputElements leaves them.
CmeInputsOf(settings) ==
  [select |-> settings.interpolationMethod, checked |-> settings.discrete = "true",
   bins |-> settings.bins, disabled |-> settings.discrete # "true"]

\* Math.abs(stop.stop * width - offsetX) < controlPointSize.
CmeHit(p, x) ==
  LET dx == p.stop - x * Pixel
  IN  dx < Pixel * controlPointSize /\ 0 - dx < Pixel * controlPointSize

\* sqrt(dx * dx + dy * dy) < controlPointSize with dy = 0.5 * height - offsetY,
\* scaled by 2 * Pixel to stay in integers.
CmeRemoveHit(p, x, y) ==
  LET dx == p.stop - x * Pixel
      dy == CanvasHeight - 2 * y
  IN  4 * dx * dx + Pixel * Pixel * dy * dy
        < 4 * Pixel * Pixel * controlPointSize * controlPointSize

RECURSIVE CmeFirstHit(_, _, _, _)
CmeFirstHit(stops, from, to, x) ==
  IF from > to THEN 0 - 1
  ELSE IF CmeHit(At(stops, from), x) THEN from
  ELSE CmeFirstHit(stops, from + 1, to, x)

RECURSIVE CmeFirstRemoveHit(_, _, _, _, _)
CmeFirstRemoveHit(stops, from, to, x, y) ==
  IF from > to THEN 0 - 1
  ELSE IF CmeRemoveHit(At(stops, from), x, y) THEN from
  ELSE CmeFirstRemoveHit(stops, from + 1, to, x, y)

\* checkDragStart: dragIndex and isDragging; it attaches a mousemove listener
\* to the document whenever it leaves isDragging set.
CmeCheckDragStart(stops, dragging, x) ==
  LET i == CmeFirstHit(stops, 0, Len(stops) - 1, x)
  IN  [dragIndex |-> i, isDragging |-> (dragging \/ i # 0 - 1)]

CmeClampStop(left, right, stop) == Max(left + Eps, Min(right - Eps, stop))

\* The stops after one run of the mousemove listener; offsetX / width is not
\* clamped to [0, 1].
CmeDragTo(stops, i, x) ==
  IF i > 0 /\ i < Len(stops) - 1
  THEN [stops EXCEPT ![i + 1].stop =
          CmeClampStop(At(stops, i - 1).stop, At(stops, i + 1).stop, x * Pixel)]
  ELSE stops

\* The mousemove listener of a ColorMapEditor.
CmeMoveStep(st, x) ==
  LET i == cmeDrag.dragIndex
      moved == CmeDragTo(st.colorStops, i, x)
  IN  IF i > 0 /\ i < Len(st.colorStops) - 1
      THEN [st EXCEPT !.colorStops = moved,
                      !.notified = @ \o CmeSendUpdates(moved, cmeSettings, st.alphaStops),
                      !.colorMap = Forwarded(moved, cmeSettings, @),
                      !.draggedBefore = TRUE]
      ELSE [st EXCEPT !.draggedBefore = TRUE]

\* The right mouse button: the first hit among the indices 1 .. length - 2.
CmeRemoved(stops, x, y) ==
  LET i == CmeFirstRemoveHit(stops, 1, Len(stops) - 2, x, y)
  IN  IF i # 0 - 1 THEN Splice(stops, i) ELSE stops

\* The click lies on the first or the last control point and on no other one.
CmeAimedAtEnd(stops, x, y) ==
  /\ stops # <<>>
  /\ CmeRemoveHit(stops[1], x, y) \/ CmeRemoveHit(stops[Len(stops)], x, y)
  /\ CmeFirstRemoveHit(stops, 1, Len(stops) - 2, x, y) = 0 - 1

CmeInit ==
  /\ colorStops = sortControlPoints(CmeDefaultColorStops)
  /\ cmeSettings = CmeDefaultSettings
  /\ cmeInputs = CmeInputsOf(CmeDefaultSettings)
  /\ cmeDrag = [isDragging |-> FALSE, dragIndex |-> 0 - 1, draggedBefore |-> FALSE]
  /\ cmeCallbacks = <<>>
  /\ cmeCallbackCounter = 0

CmeListenerVars == <<cmeCallbacks, cmeCallbackCounter>>
CmeIdle == <<cmeDrag, moveListeners>>
NotCme == <<widget, picker, cmePopup, callbackBodies, options, returned, alphaStops, alphaRange, teIsDragging, teDragIndex, teCallbacks, teCallbackCounter,
            TfeVars, NifVars, removed>>

\* What every operation of a ColorMapEditor ends with: sendUpdates().
CmeNotify ==
  /\ notified' = CmeSendUpdates(colorStops', cmeSettings', alphaStops)
  /\ colorMap' = Forwarded(colorStops', cmeSettings', colorMap)
  /\ colorRangeCache' = Recached(colorMap')
  /\ threw' = FALSE

CmeAddListener ==
  /\ widget = "ColorMapEditor"
  /\ cmeCallbackCounter < MaxListeners
  /\ cmeCallbacks' = Append(cmeCallbacks, cmeCallbackCounter)
  /\ cmeCallbackCounter' = cmeCallbackCounter + 1
  /\ notified' = AddListenerRound("ColorMapEditor", cmeCallbackCounter,
                                  CmeView(colorStops, cmeSettings))
  /\ threw' = FALSE
  /\ lastOp' = "cme.addListener"
  /\ UNCHANGED <<NotCme, colorMap, colorRangeCache, colorStops, cmeSettings, cmeInputs, CmeIdle>>

CmeRemoveListener(id) ==
  /\ widget = "ColorMapEditor"
  /\ cmeCallbacks' = MapDelete(cmeCallbacks, id)
  /\ removed' = removed \cup ({id} \cap Keys(cmeCallbacks))
  /\ notified' = <<>>
  /\ threw' = FALSE
  /\ lastOp' = "cme.removeListener"
  /\ UNCHANGED <<widget, picker, cmePopup, callbackBodies, options, returned, TeVars, TfeVars, NifVars, colorStops, cmeSettings, cmeInputs, CmeIdle,
                 cmeCallbackCounter>>

\* ColorMapEditor.setColorStops, which TransferFunctionEditor.setColorMap calls.
CmeSetColorStops(arr) ==
  /\ HasCme
  /\ colorStops' = sortControlPoints(arr)
  /\ lastOp' = "cme.setColorStops"
  /\ UNCHANGED <<NotCme, cmeSettings, cmeInputs, CmeIdle, CmeListenerVars>>
  /\ CmeNotify

CmeSetInterpolationMethods(method) ==
  /\ widget = "ColorMapEditor"
  /\ cmeSettings' = [cmeSettings EXCEPT !.interpolationMethod = method]
  /\ cmeInputs' = [cmeInputs EXCEPT !.select = method]
  /\ lastOp' = "cme.setInterpolationMethods"
  /\ UNCHANGED <<NotCme, colorStops, CmeIdle, CmeListenerVars>>
  /\ CmeNotify

CmeSetDiscrete(d) ==
  /\ widget = "ColorMapEditor"
  /\ cmeSettings' = [cmeSettings EXCEPT !.discrete = IF d THEN "true" ELSE "false"]
  /\ cmeInputs' = [cmeInputs EXCEPT !.disabled = ~d]
  /\ lastOp' = "cme.setDiscrete"
  /\ UNCHANGED <<NotCme, colorStops, CmeIdle, CmeListenerVars>>
  /\ CmeNotify

CmeSetBins(b) ==
  /\ widget = "ColorMapEditor"
  /\ cmeSettings' = [cmeSettings EXCEPT !.bins = Num(Max(b, 0))]
  /\ cmeInputs' = [cmeInputs EXCEPT !.bins = Num(Max(b, 0))]
  /\ lastOp' = "cme.setBins"
  /\ UNCHANGED <<NotCme, colorStops, CmeIdle, CmeListenerVars>>
  /\ CmeNotify

\* getDiscreteColorMap: getColorMapBins(this.getColorMap()); reading the first
\* stop of an empty list throws a TypeError.
CmeGetDiscreteColorMap ==
  /\ HasCme
  /\ LET cm == getColorMap(colorStops, cmeSettings)
     IN  IF cm.discrete = "true" /\ Truthy(cm.bins) /\ colorStops = <<>>
         THEN Query("cme.getDiscreteColorMap", 0, <<>>, TRUE)
         ELSE Query("cme.getDiscreteColorMap", 0, getColorMapBins(cm), FALSE)

\* Math.max(colorMap.bins || 0, 0).
BinsOf(cm) == IF Truthy(cm.bins) THEN Num(Max(cm.bins.num, 0)) ELSE Num(0)

CmeSetColorMap(cm) ==
  /\ widget = "ColorMapEditor"
  /\ colorStops' = sortControlPoints(cm.colorStops)
  /\ cmeSettings' = [interpolationMethod |-> cm.interpolationMethod,
                     discrete |-> cm.discrete, bins |-> BinsOf(cm)]
  /\ cmeInputs' = CmeInputsOf(cmeSettings')
  /\ lastOp' = "cme.setColorMap"
  /\ UNCHANGED <<NotCme, CmeIdle, CmeListenerVars>>
  /\ CmeNotify

\* The change listener of the interpolation method select.
CmeSelectChange(method) ==
  /\ HasCme
  /\ cmeInputs' = [cmeInputs EXCEPT !.select = method]
  /\ cmeSettings' = [cmeSettings EXCEPT !.interpolationMethod = method]
  /\ lastOp' = "cme.select.change"
  /\ UNCHANGED <<NotCme, colorStops, CmeIdle, CmeListenerVars>>
  /\ CmeNotify

\* The change listener of the discrete checkbox, after the user toggled it.
CmeDiscreteChange ==
  /\ HasCme
  /\ cmeInputs' = [cmeInputs EXCEPT !.checked = ~@, !.disabled = cmeInputs.checked]
  /\ cmeSettings' = [cmeSettings EXCEPT !.discrete =
                       IF cmeInputs.checked THEN "false" ELSE "true"]
  /\ lastOp' = "cme.discrete.change"
  /\ UNCHANGED <<NotCme, colorStops, CmeIdle, CmeListenerVars>>
  /\ CmeNotify

\* The change listener of the bins input, after the user typed v; a disabled
\* input takes no user events.
CmeBinsChange(v) ==
  /\ HasCme
  /\ ~cmeInputs.disabled
  /\ cmeInputs' = [cmeInputs EXCEPT !.bins = v]
  /\ cmeSettings' = [cmeSettings EXCEPT !.bins = v]
  /\ lastOp' = "cme.bins.change"
  /\ UNCHANGED <<NotCme, colorStops, CmeIdle, CmeListenerVars>>
  /\ CmeNotify

\* The wheel listener of the bins input: deltaY > 0 decrements.
CmeBinsWheel(deltaY) ==
  /\ HasCme
  /\ ~cmeInputs.disabled
  /\ (deltaY < 0 /\ cmeInputs.bins # NaN) => cmeInputs.bins.num < DefaultBins
  /\ LET old == cmeInputs.bins
         new == IF old = NaN \/ deltaY = 0 THEN old
                ELSE IF deltaY > 0 THEN Num(Max(old.num - 1, 0))
                ELSE Num(Max(old.num + 1, 0))
     IN  /\ cmeInputs' = [cmeInputs EXCEPT !.bins = new]
         /\ cmeSettings' = [cmeSettings EXCEPT !.bins = new]
  /\ lastOp' = "cme.bins.wheel"
  /\ UNCHANGED <<NotCme, colorStops, CmeIdle, CmeListenerVars>>
  /\ CmeNotify

\* validateBins, the focusout listener and the keypress listener on Enter.
CmeValidateBins ==
  /\ HasCme
  /\ ~cmeInputs.disabled
  /\ IF ~Truthy(cmeInputs.bins) \/ cmeInputs.bins.num < 0
     THEN /\ cmeInputs' = [cmeInputs EXCEPT !.bins = Num(0)]
          /\ cmeSettings' = [cmeSettings EXCEPT !.bins = Num(0)]
     ELSE UNCHANGED <<cmeInputs, cmeSettings>>
  /\ lastOp' = "cme.bins.validate"
  /\ UNCHANGED <<NotCme, colorStops, CmeIdle, CmeListenerVars>>
  /\ CmeNotify

\* A stop that takes the colour of the first stop instead of the colour of
\* the colour map at its position.
CmeNewStopOfFirstColor(stops, settings, x) ==
  ColorStop(Max(0, Min(One, x * Pixel)),
            IF stops = <<>> THEN UnknownColor ELSE stops[1].color)
\* The stop that the left mouse button creates: offsetX / width clamped to
\* [0, 1], with the colour that the colour map has there.
CmeNewStop(stops, settings, x) ==
  LET stop == Max(0, Min(One, x * Pixel))
  IN  ColorStop(stop, getColorFromColorMapAt(CmeView(stops, settings), stop))

\* The canvas mousedown listener.
CmeMouseDown(button, x, y) ==
  /\ HasCme
  /\ IF button = 0
     THEN LET first == CmeCheckDragStart(colorStops, cmeDrag.isDragging, x)
          IN  IF first.isDragging
              THEN /\ cmeDrag' = [isDragging |-> TRUE, dragIndex |-> first.dragIndex,
                                  draggedBefore |-> FALSE]
                   /\ moveListeners' = Append(moveListeners, "cme")
                   /\ notified' = <<>>
                   /\ UNCHANGED <<colorStops, colorMap, colorRangeCache>>
              ELSE LET added == sortControlPoints(Append(colorStops,
                                                          CmeNewStop(colorStops, cmeSettings, x)))
                       second == CmeCheckDragStart(added, first.isDragging, x)
                   IN  /\ Len(colorStops) < MaxStops
                       /\ colorStops' = added
                       /\ notified' = CmeSendUpdates(added, cmeSettings, alphaStops)
                       /\ colorMap' = Forwarded(added, cmeSettings, colorMap)
                       /\ colorRangeCache' = Recached(colorMap')
                       /\ cmeDrag' = [isDragging |-> second.isDragging,
                                      dragIndex |-> second.dragIndex,
                                      draggedBefore |-> FALSE]
                       /\ moveListeners' = IF second.isDragging
                                           THEN Append(moveListeners, "cme")
                                           ELSE moveListeners
     ELSE /\ colorStops' = CmeRemoved(colorStops, x, y)
          /\ notified' = IF colorStops' # colorStops
                         THEN CmeSendUpdates(colorStops', cmeSettings, alphaStops)
                         ELSE <<>>
          /\ colorMap' = IF colorStops' # colorStops
                         THEN Forwarded(colorStops', cmeSettings, colorMap)
                         ELSE colorMap
          /\ colorRangeCache' = Recached(colorMap')
          /\ cmeDrag' = [cmeDrag EXCEPT !.draggedBefore = FALSE]
          /\ UNCHANGED moveListeners
  /\ Len(moveListeners') <= MaxMoveListeners
  /\ threw' = FALSE
  /\ lastOp' = IF button = 0 THEN "cme.mousedown.left"
               ELSE IF CmeAimedAtEnd(colorStops, x, y) THEN "cme.mousedown.right.end"
               ELSE "cme.mousedown.right"
  /\ UNCHANGED <<NotCme, cmeSettings, cmeInputs, CmeListenerVars>>

\* ------------------------------------------------------ document listeners
\* A mousemove event runs the document's listeners in attachment order.
RECURSIVE DispatchMove(_, _, _, _)
DispatchMove(ls, st, x, y) ==
  IF ls = <<>> THEN st
  ELSE DispatchMove(Tail(ls),
                    IF Head(ls) = "te" THEN TeMoveStep(st, x, y) ELSE CmeMoveStep(st, x),
                    x, y)

\* A mousemove on the document, in the coordinates of the editor's canvas.
MouseMove(x, y) ==
  /\ moveListeners # <<>>
  /\ LET r == DispatchMove(moveListeners,
                           MoveState(alphaStops, alphaRange, colorStops, colorMap,
                                     cmeDrag.draggedBefore),
                           x, y)
     IN  /\ alphaStops' = r.alphaStops
         /\ alphaRange' = r.alphaRange
         /\ colorStops' = r.colorStops
         /\ colorMap' = r.colorMap
         /\ colorRangeCache' = Recached(r.colorMap)
         /\ cmeDrag' = [cmeDrag EXCEPT !.draggedBefore = r.draggedBefore]
         /\ notified' = r.notified
         /\ threw' = r.threw
  /\ lastOp' = "mousemove"
  /\ UNCHANGED <<widget, picker, cmePopup, callbackBodies, options, returned, cmeSettings, cmeInputs, CmeListenerVars, TeDragVars, TeListenerVars,
                 TfeVars, NifVars, moveListeners, removed>>

\* A mouseup listener that aborts the last mousemove listener and leaves
\* dragIndex as it is.
MouseUpKeepsDragIndex ==
  /\ HasCme \/ HasTe
  /\ LET afterTe == IF teIsDragging THEN Abort(moveListeners, "te") ELSE moveListeners
     IN  moveListeners' = IF cmeDrag.isDragging THEN Abort(afterTe, "cme") ELSE afterTe
  /\ teIsDragging' = FALSE
  /\ cmeDrag' = [cmeDrag EXCEPT !.isDragging = FALSE]
  /\ notified' = <<>>
  /\ threw' = FALSE
  /\ lastOp' = "mouseup"
  /\ UNCHANGED <<widget, picker, cmePopup, callbackBodies, options, returned, colorStops, cmeSettings, cmeInputs, CmeListenerVars,
                 alphaStops, alphaRange, teDragIndex,
                 colorMap, colorRangeCache, TeListenerVars, TfeVars, NifVars, removed>>

\* A mouseup on the document: the mouseup listener of each editor; an editor's
\* abortController is set exactly while its isDragging is.
MouseUp ==
  /\ HasCme \/ HasTe
  /\ LET afterTe == IF teIsDragging THEN Abort(moveListeners, "te") ELSE moveListeners
     IN  moveListeners' = IF cmeDrag.isDragging THEN Abort(afterTe, "cme") ELSE afterTe
  /\ teIsDragging' = FALSE
  /\ teDragIndex' = IF teIsDragging THEN 0 - 1 ELSE teDragIndex
  /\ cmeDrag' = IF cmeDrag.isDragging
                THEN [cmeDrag EXCEPT !.isDragging = FALSE, !.dragIndex = 0 - 1]
                ELSE cmeDrag
  /\ notified' = <<>>
  /\ threw' = FALSE
  /\ lastOp' = "mouseup"
  /\ UNCHANGED <<widget, picker, cmePopup, callbackBodies, options, returned, colorStops, cmeSettings, cmeInputs, CmeListenerVars,
                 alphaStops, alphaRange,
                 colorMap, colorRangeCache, TeListenerVars, TfeVars, NifVars, removed>>

\* -------------------------------------------------- TransferFunctionEditor
\* The constructor: both editors, the ColorMapEditor's listener that hands the
\* colour map to the TransparencyEditor, and the TransparencyEditor's listener
\* that runs the callbacks of the TransferFunctionEditor.
TfeInit ==
  /\ colorStops = sortControlPoints(CmeDefaultColorStops)
  /\ cmeSettings = CmeDefaultSettings
  /\ cmeInputs = CmeInputsOf(CmeDefaultSettings)
  /\ cmeDrag = [isDragging |-> FALSE, dragIndex |-> 0 - 1, draggedBefore |-> FALSE]
  /\ cmeCallbacks = <<0>>
  /\ cmeCallbackCounter = 1
  /\ alphaStops = sortControlPoints(TeDefaultAlphaStops)
  /\ alphaRange = updateAlphaRange(alphaStops)
  /\ colorMap = getColorMap(sortControlPoints(CmeDefaultColorStops), CmeDefaultSettings)
  /\ colorRangeCache = getColorRange(colorMap)
  /\ teIsDragging = FALSE
  /\ teDragIndex = 0 - 1
  /\ teCallbacks = <<0>>
  /\ teCallbackCounter = 1

\* The constructor with the options {initialAlphaStops: tf.alphaStops,
\* initialColorMap: tf.colorMap}: both editors read the same options, and the
\* TransparencyEditor's colour map is replaced by getColorMap().
TfeNew(tf) ==
  /\ colorStops = sortControlPoints(tf.colorMap.colorStops)
  /\ cmeSettings = [interpolationMethod |-> tf.colorMap.interpolationMethod,
                    discrete |-> tf.colorMap.discrete, bins |-> tf.colorMap.bins]
  /\ cmeInputs = CmeInputsOf(cmeSettings)
  /\ cmeDrag = [isDragging |-> FALSE, dragIndex |-> 0 - 1, draggedBefore |-> FALSE]
  /\ cmeCallbacks = <<0>>
  /\ cmeCallbackCounter = 1
  /\ alphaStops = sortControlPoints(tf.alphaStops)
  /\ alphaRange = updateAlphaRange(alphaStops)
  /\ colorMap = getColorMap(colorStops, cmeSettings)
  /\ colorRangeCache = getColorRange(getColorMap(colorStops, cmeSettings))
  /\ teIsDragging = FALSE
  /\ teDragIndex = 0 - 1
  /\ teCallbacks = <<0>>
  /\ teCallbackCounter = 1

TfeAddListener ==
  /\ widget = "TransferFunctionEditor"
  /\ tfeCallbackCounter < MaxListeners
  /\ tfeCallbacks' = Append(tfeCallbacks, tfeCallbackCounter)
  /\ tfeCallbackCounter' = tfeCallbackCounter + 1
  /\ notified' = AddListenerRound("TransferFunctionEditor", tfeCallbackCounter,
                                  TeView(alphaStops, colorMap))
  /\ threw' = FALSE
  /\ lastOp' = "tfe.addListener"
  /\ UNCHANGED <<widget, picker, cmePopup, callbackBodies, options, returned, CmeVars, TeVars, NifVars, moveListeners, removed>>

TfeRemoveListener(id) ==
  /\ widget = "TransferFunctionEditor"
  /\ tfeCallbacks' = MapDelete(tfeCallbacks, id)
  /\ removed' = removed \cup ({id} \cap Keys(tfeCallbacks))
  /\ notified' = <<>>
  /\ threw' = FALSE
  /\ lastOp' = "tfe.removeListener"
  /\ UNCHANGED <<widget, picker, cmePopup, callbackBodies, options, returned, CmeVars, TeVars, NifVars, moveListeners, tfeCallbackCounter>>

\* -------------------------------------------------------- NumberInputField
NifView(value) == [value |-> value]

\* The options min and max of a NumberInputField, undefined by default.
NifMin ==
  IF widget = "NumberInputField" /\ options # NoOptions THEN options.min ELSE Undefined
NifMax ==
  IF widget = "NumberInputField" /\ options # NoOptions THEN options.max ELSE Undefined

Null == [null |-> TRUE]
IsNumber(a) == DOMAIN a = {"num"}
\* a === b: NaN is not equal to itself.
StrictEquals(a, b) == a = b /\ a # NaN
\* a < b, which is false when either side is NaN or undefined.
Less(a, b) == IsNumber(a) /\ IsNumber(b) /\ a.num < b.num
\* Math.round of a whole number, of NaN and of undefined.
MathRound(a) == IF IsNumber(a) THEN a ELSE NaN
\* What input.valueAsNumber reads after it was assigned a: assigning NaN or
\* undefined empties the field.
ValueAsNumber(a) == IF IsNumber(a) THEN a ELSE NaN
\* a + d.
Plus(a, d) == IF IsNumber(a) THEN Num(a.num + d) ELSE NaN

\* setValue(value) with notifyObservers left at its default, on a field with
\* the value cur and the input content input: the value, the input content
\* and the listener calls that it leaves.  integerOnly is left at its default.
setValue(value, cur, input) ==
  IF StrictEquals(value, cur) THEN [value |-> cur, input |-> input, notified |-> <<>>]
  ELSE LET tmp == IF NifMin # Undefined /\ Less(value, NifMin) THEN NifMin
                  ELSE IF NifMax # Undefined /\ Less(NifMax, value) THEN NifMax
                  ELSE value
           v == MathRound(tmp)
       IN  [value |-> v, input |-> ValueAsNumber(v),
            notified |-> Round("NumberInputField", nifCallbacks, NifView(v))]

\* validateInput on the input content: the content that it leaves and the
\* number or null that it returns.
validateInput(input) ==
  LET clamped == IF NifMin # Undefined /\ Less(input, NifMin) THEN NifMin
                 ELSE IF NifMax # Undefined /\ Less(NifMax, input) THEN NifMax
                 ELSE input
  IN  [input |-> clamped, result |-> IF IsNumber(clamped) THEN clamped ELSE Null]

\* validateFinalInput: for an input without a number the content becomes
\* this.min, which is returned; for an input with a number null is returned.
validateFinalInput(input) ==
  LET v == validateInput(input)
  IN  IF v.result = Null THEN [input |-> ValueAsNumber(NifMin), result |-> NifMin]
      ELSE [input |-> v.input, result |-> Null]

\* The constructor: setValue(initialValue) with the default initialValue 0 on
\* a field whose value is still undefined.
NifInit ==
  /\ nifCallbacks = <<>>
  /\ nifCallbackCounter = 0
  /\ nifValue = setValue(Num(0), Undefined, NaN).value
  /\ nifInput = setValue(Num(0), Undefined, NaN).input

NifAddListener ==
  /\ widget = "NumberInputField"
  /\ nifCallbackCounter < MaxListeners
  /\ nifCallbacks' = Append(nifCallbacks, nifCallbackCounter)
  /\ nifCallbackCounter' = nifCallbackCounter + 1
  /\ notified' = AddListenerRound("NumberInputField", nifCallbackCounter, NifView(nifValue))
  /\ threw' = FALSE
  /\ lastOp' = "nif.addListener"
  /\ UNCHANGED <<widget, picker, cmePopup, callbackBodies, options, returned, CmeVars, TeVars, TfeVars, moveListeners, removed, nifValue,
                 nifInput>>

NifRemoveListener(id) ==
  /\ widget = "NumberInputField"
  /\ nifCallbacks' = MapDelete(nifCallbacks, id)
  /\ removed' = removed \cup ({id} \cap Keys(nifCallbacks))
  /\ notified' = <<>>
  /\ threw' = FALSE
  /\ lastOp' = "nif.removeListener"
  /\ UNCHANGED <<widget, picker, cmePopup, callbackBodies, options, returned, CmeVars, TeVars, TfeVars, moveListeners, nifValue, nifInput,
                 nifCallbackCounter>>

NotNif == <<widget, picker, cmePopup, callbackBodies, options, returned, CmeVars, TeVars, TfeVars, moveListeners, removed, nifCallbacks,
            nifCallbackCounter>>

\* What a call of setValue by a method or a listener leaves.
NifSet(r, op) ==
  /\ nifValue' = r.value
  /\ nifInput' = r.input
  /\ notified' = r.notified
  /\ threw' = FALSE
  /\ lastOp' = op
  /\ UNCHANGED NotNif

NifSetValue(value) ==
  /\ widget = "NumberInputField"
  /\ NifSet(setValue(value, nifValue, nifInput), "nif.setValue")

\* setValue(value, false): the loop over the callbacks is skipped.
NifSetValueSilently(value) ==
  /\ widget = "NumberInputField"
  /\ NifSet([setValue(value, nifValue, nifInput) EXCEPT !.notified = <<>>], "nif.setValue.silent")

\* The wheel listener of the input: deltaY > 0 decrements by step.
NifWheel(deltaY) ==
  /\ widget = "NumberInputField"
  /\ (IsNumber(nifValue) /\ deltaY > 0) => nifValue.num > 0 - MaxValue
  /\ (IsNumber(nifValue) /\ deltaY < 0) => nifValue.num < MaxValue
  /\ NifSet(setValue(Plus(nifValue, IF deltaY > 0 THEN 0 - 1 ELSE 1), nifValue, nifInput),
            "nif.wheel")

\* The input listener, after the user has made typed the content of the
\* field: validateInput, and setValue unless it returned null.
NifInput(typed) ==
  /\ widget = "NumberInputField"
  /\ LET v == validateInput(typed)
     IN  NifSet(IF v.result # Null THEN setValue(v.result, nifValue, v.input)
                ELSE [value |-> nifValue, input |-> v.input, notified |-> <<>>],
                "nif.input")

\* What the focusout listener and the keypress listener for Enter do:
\* validateFinalInput, and setValue unless it returned null.
NifFinal(op) ==
  LET v == validateFinalInput(nifInput)
  IN  NifSet(IF v.result # Null THEN setValue(v.result, nifValue, v.input)
             ELSE [value |-> nifValue, input |-> v.input, notified |-> <<>>],
             op)

NifFocusOut ==
  /\ widget = "NumberInputField"
  /\ NifFinal("nif.focusout")

NifKeypressEnter ==
  /\ widget = "NumberInputField"
  /\ NifFinal("nif.keypress")

\* --------------------------------------------------------------- ColorPicker
\* A colour string: the levels of its three channels in 0 .. ColorMax, or a
\* string that d3's color() does not parse.
RgbString(r, g, b) == [r |-> r, g |-> g, b |-> b]
InvalidString == [invalid |-> TRUE]
\* The option initialColor defaults to "#FFF".
DefaultInitialColor == RgbString(ColorMax, ColorMax, ColorMax)

\* A hue is a number of degrees; a saturation and a value are counts of
\* 1 / ColorMax, so that 1.0 is ColorMax.
Hsv(h, s, v) == [h |-> h, s |-> s, v |-> v]

\* d3-hsv's hsv(specifier).  The hue of a colour with d = max - min = 0 is
\* NaN; the saturation d / max of black is NaN; a string that does not parse
\* gives NaN three times.  The colours that are converted have a hue of whole
\* degrees and a saturation of whole counts.
d3HSV(color) ==
  IF color = InvalidString THEN Hsv(NaN, NaN, NaN)
  ELSE LET r == color.r
           g == color.g
           b == color.b
           max == Max(r, Max(g, b))
           min == Min(r, Min(g, b))
           d == max - min
           h == IF d = 0 THEN NaN
                ELSE IF r = max THEN Num((60 * (g - b)) \div d + (IF g < b THEN 360 ELSE 0))
                ELSE IF g = max THEN Num((60 * (b - r)) \div d + 120)
                ELSE Num((60 * (r - g)) \div d + 240)
           s == IF max = 0 THEN NaN ELSE Num((d * ColorMax) \div max)
       IN  Hsv(h, s, Num(max))

\* The constructor: hsv(initialColor), with 180 for a NaN hue and 1 for a NaN
\* saturation; no callback and no mousemove listener yet.
CpNew(initialColor) ==
  LET c == d3HSV(initialColor)
      h == IF c.h = NaN THEN Num(180) ELSE c.h
      s == IF c.s = NaN THEN Num(ColorMax) ELSE c.s
  IN  [hsv |-> Hsv(h, s, c.v), backUpHue |-> h, backUpSaturation |-> s,
       callback |-> FALSE, hDragging |-> FALSE, hListeners |-> 0,
       svDragging |-> FALSE, svListeners |-> 0]

\* validateHueAndSaturation, applied to a picker whose hsv was just replaced.
validateHueAndSaturation(p) ==
  LET h == IF p.hsv.h = NaN THEN p.backUpHue ELSE p.hsv.h
      s == IF p.hsv.s = NaN THEN p.backUpSaturation ELSE p.hsv.s
  IN  [p EXCEPT !.hsv = Hsv(h, s, p.hsv.v), !.backUpHue = h, !.backUpSaturation = s]

\* The hue of getHSL(), which is hsl(this.hsv.formatHsl()): the hsv colour is
\* converted to rgb and to hsl, written as "hsl(h, s%, l%)" with 0 for a NaN
\* hue, and parsed again; d3-color's hsla() gives a colour without saturation
\* (s <= 0) or without lightness (l <= 0 or l >= 1) the hue NaN.
HslHue(hsv) ==
  IF hsv.h = NaN \/ hsv.s = NaN \/ hsv.v = NaN THEN NaN
  ELSE IF hsv.s.num <= 0 \/ hsv.v.num <= 0 THEN NaN
  ELSE Num(hsv.h.num % 360)

\* getColor(): the hsv and the hsl representation of the colour; of the hsl
\* representation the hue.
getColor(p) == [hsv |-> p.hsv, hsl |-> [h |-> HslHue(p.hsv)]]

\* sendUpdate: the callback, if there is one, is handed getColor().
CpSendUpdate(p) == IF p.callback THEN Round("ColorPicker", <<0>>, getColor(p)) ELSE <<>>

NotCp == <<widget, cmePopup, callbackBodies, options, returned, CmeVars, TeVars, TfeVars, NifVars, moveListeners, removed>>

\* What every operation of a ColorPicker that changes the colour ends with.
CpChanged(p, op) ==
  /\ picker' = p
  /\ notified' = CpSendUpdate(p)
  /\ threw' = FALSE
  /\ lastOp' = op
  /\ UNCHANGED NotCp

\* onChange(callback): the callback replaces the one before it and is called
\* at once.
CpOnChange ==
  /\ widget = "ColorPicker"
  /\ CpChanged([picker EXCEPT !.callback = TRUE], "cp.onChange")

CpSetHEX(color) ==
  /\ widget = "ColorPicker"
  /\ CpChanged(validateHueAndSaturation([picker EXCEPT !.hsv = d3HSV(color)]), "cp.setHEX")

\* setRGB(r, g, b) with whole numbers: hsv(`rgb(${r},${g},${b})`).
CpSetRGB(r, g, b) ==
  /\ widget = "ColorPicker"
  /\ CpChanged(validateHueAndSaturation([picker EXCEPT !.hsv = d3HSV(RgbString(r, g, b))]),
               "cp.setRGB")

\* setHSL(h, s, l): hsv(`hsl(${h} ${s} ${l})`), a string without commas and
\* percent signs, which d3's color() does not parse.
CpSetHSL ==
  /\ widget = "ColorPicker"
  /\ CpChanged(validateHueAndSaturation([picker EXCEPT !.hsv = d3HSV(InvalidString)]),
               "cp.setHSL")

\* setHSV(h, s, v): hsv(h, s, v) takes the three numbers as they are.
CpSetHSV(h, s, v) ==
  /\ widget = "ColorPicker"
  /\ CpChanged(validateHueAndSaturation([picker EXCEPT !.hsv = Hsv(h, s, v)]), "cp.setHSV")

\* The input listener of the hex field: a value that matches the pattern is
\* taken as setHEX takes it, any other value is only marked invalid.
CpHexInput(value) ==
  /\ widget = "ColorPicker"
  /\ IF value = InvalidString
     THEN /\ notified' = <<>>
          /\ threw' = FALSE
          /\ lastOp' = "cp.hex.input"
          /\ UNCHANGED <<NotCp, picker>>
     ELSE CpChanged(validateHueAndSaturation([picker EXCEPT !.hsv = d3HSV(value)]),
                    "cp.hex.input")

\* clamp(number, min, max).
clamp(number, min, max) == Max(min, Min(max, number))

\* The input listener of the h field.  validateInput clamps the number in
\* the field to 0 .. 360 and returns null for an empty field; onHueUpdate
\* leaves the picker alone for null.
CpHueInput(value) ==
  /\ widget = "ColorPicker"
  /\ IF value = NaN
     THEN /\ notified' = <<>>
          /\ threw' = FALSE
          /\ lastOp' = "cp.h.input"
          /\ UNCHANGED <<NotCp, picker>>
     ELSE LET h == Num(clamp(value.num, 0, 360))
          IN  CpChanged([picker EXCEPT !.hsv.h = h, !.backUpHue = h], "cp.h.input")

\* The wheel listener of the h field: Math.round(this.hsv.h) one down for
\* deltaY > 0 and one up for deltaY < 0, clamped to 0 .. 360.
CpHueWheel(deltaY) ==
  /\ widget = "ColorPicker"
  /\ (picker.hsv.h # NaN /\ deltaY > 0) => picker.hsv.h.num <= WheelReach
  /\ (picker.hsv.h # NaN /\ deltaY < 0) => picker.hsv.h.num >= 360 - WheelReach
  /\ LET h == IF picker.hsv.h = NaN THEN NaN
              ELSE Num(clamp(picker.hsv.h.num + (IF deltaY > 0 THEN 0 - 1 ELSE 1), 0, 360))
     IN  CpChanged([picker EXCEPT !.hsv.h = h, !.backUpHue = h], "cp.h.wheel")

\* updateH(y) for y in counts of CANVAS_SIZE / ColorMax:
\* clamp(Math.round((1 - y / CANVAS_SIZE) * 360), 0, 360).
updateH(p, y) ==
  LET h == Num(clamp(RoundDiv(360 * (ColorMax - y), ColorMax), 0, 360))
  IN  [p EXCEPT !.hsv.h = h, !.backUpHue = h]

\* The mousedown listener of the hue canvas, for any button: one more
\* mousemove listener on the document, then updateH(e.offsetY).
CpHueMouseDown(y) ==
  /\ widget = "ColorPicker"
  /\ picker.hListeners < MaxMoveListeners
  /\ CpChanged([updateH(picker, y) EXCEPT !.hListeners = @ + 1, !.hDragging = TRUE],
               "cp.h.mousedown")

\* updateSV(x, y) for x and y in counts of CANVAS_SIZE / ColorMax.
updateSV(p, x, y) ==
  LET s == Num(clamp(x, 0, ColorMax))
      v == Num(clamp(ColorMax - y, 0, ColorMax))
  IN  [p EXCEPT !.hsv.s = s, !.hsv.v = v, !.backUpSaturation = s]

\* The mousedown listener of the saturation-value canvas, for button 0.
CpSvMouseDown(button, x, y) ==
  /\ widget = "ColorPicker"
  /\ IF button = 0
     THEN /\ picker.svListeners < MaxMoveListeners
          /\ CpChanged([updateSV(picker, x, y) EXCEPT !.svListeners = @ + 1,
                                                       !.svDragging = TRUE],
                       "cp.sv.mousedown")
     ELSE /\ notified' = <<>>
          /\ threw' = FALSE
          /\ lastOp' = "cp.sv.mousedown"
          /\ UNCHANGED <<NotCp, picker>>

\* A mousemove on the document: every listener that a mousedown on the hue
\* canvas attached runs updateH, every listener of the saturation-value
\* canvas runs updateSV, and each of them sends an update.  The listeners of
\* the hue canvas are taken first.
CpMouseMove(x, y) ==
  /\ widget = "ColorPicker"
  /\ picker.hListeners + picker.svListeners > 0
  /\ LET afterH == IF picker.hListeners > 0 THEN updateH(picker, y) ELSE picker
         afterSV == IF picker.svListeners > 0 THEN updateSV(afterH, x, y) ELSE afterH
         roundsH == [k \in 1..picker.hListeners |-> CpSendUpdate(afterH)[1]]
         roundsSV == [k \in 1..picker.svListeners |-> CpSendUpdate(afterSV)[1]]
     IN  /\ picker' = afterSV
         /\ notified' = IF picker.callback THEN roundsH \o roundsSV ELSE <<>>
  /\ threw' = FALSE
  /\ lastOp' = "cp.mousemove"
  /\ UNCHANGED NotCp

\* A mouseup on the document: each of the two mouseup listeners, if its
\* isDragging is set, aborts the AbortController that the last mousedown on
\* its canvas made, which removes the mousemove listener of that mousedown
\* and of no mousedown before it.
CpMouseUp ==
  /\ widget = "ColorPicker"
  /\ picker' = [picker EXCEPT !.hListeners = IF picker.hDragging THEN @ - 1 ELSE @,
                              !.hDragging = FALSE,
                              !.svListeners = IF picker.svDragging THEN @ - 1 ELSE @,
                              !.svDragging = FALSE]
  /\ notified' = <<>>
  /\ threw' = FALSE
  /\ lastOp' = "cp.mouseup"
  /\ UNCHANGED NotCp

\* ------------------------------------------------------------ environment
\* Mouse coordinates in canvas pixels.  A mousedown happens on the canvas; a
\* mousemove is heard on the document, so it may lie outside the canvas.
DownXs == 0..CanvasWidth
DownYs == 0..CanvasHeight
MoveXs == (0 - 1)..(CanvasWidth + 1)
MoveYs == {0 - 1} \cup 1..CanvasHeight
Buttons == {0, 2}
\* Arguments of the public methods.
ApiStops == {One \div 2, One + Pixel}
ApiAlphas == {0, AlphaOne}
AlphaStopArrays ==
  { <<>>,
    <<AlphaStop(One \div 2, 0), AlphaStop(One \div 2, AlphaOne)>>,
    <<AlphaStop(One, AlphaOne), AlphaStop(0, 0)>>,
    TeDefaultAlphaStops }
ColorStopArrays ==
  { <<>>,
    <<ColorStop(One, Css(0))>>,
    <<ColorStop(One, Css(ColorMax)), ColorStop(0, Css(0))>>,
    CmeDefaultColorStops }
ColorMaps ==
  { [colorStops |-> <<ColorStop(0, Css(ColorMax))>>,
     interpolationMethod |-> "RGB", discrete |-> "undefined", bins |-> Undefined],
    [colorStops |-> <<ColorStop(One, Css(0)), ColorStop(0, Css(ColorMax))>>,
     interpolationMethod |-> "HSL", discrete |-> "false", bins |-> Num(DefaultBins)] }
ListenerIds == 0..MaxListeners

Init ==
  /\ widget \in {"ColorMapEditor", "TransparencyEditor", "TransferFunctionEditor",
                 "NumberInputField"}
  /\ options = NoOptions
  /\ returned = NoReturn
  /\ callbackBodies = NoBodies
  /\ cmePopup = NoPopup
  /\ picker = CpNew(DefaultInitialColor)
  /\ IF widget = "TransferFunctionEditor" THEN TfeInit ELSE CmeInit /\ TeInit
  /\ tfeCallbacks = <<>>
  /\ tfeCallbackCounter = 0
  /\ NifInit
  /\ moveListeners = <<>>
  /\ notified = <<>>
  /\ threw = FALSE
  /\ removed = {}
  /\ lastOp = "new"

\* The stop operations: the mouse listeners and the methods that add, remove
\* and replace stops.
StopsNext ==
  \/ \E s \in ApiStops, a \in ApiAlphas : TeAddControlPoint(s, a)
  \/ \E x \in DownXs, y \in DownYs : TeRemoveControlPointAt(x, y)
  \/ \E arr \in AlphaStopArrays : TeSetAlphaStops(arr)
  \/ \E b \in Buttons, x \in DownXs, y \in DownYs : TeMouseDown(b, x, y)
  \/ \E arr \in ColorStopArrays : CmeSetColorStops(arr)
  \/ \E cm \in ColorMaps : CmeSetColorMap(cm)
  \/ \E b \in Buttons, x \in DownXs, y \in DownYs : CmeMouseDown(b, x, y)
  \/ \E x \in MoveXs, y \in MoveYs : MouseMove(x, y)
  \/ MouseUp

\* A ColorMapEditor or a TransparencyEditor on its own, under its stop operations.
InitStops == Init /\ widget \in {"ColorMapEditor", "TransparencyEditor"}
SpecStops == InitStops /\ [][StopsNext]_vars

\* Arguments of the methods and of the input elements next to listeners.
Methods == {"RGB", "HSL"}
\* The enum InterpolationMethod.
InterpolationMethod ==
  {"RGB", "HSL", "HSL_LONG", "HSV", "HSV_LONG", "HCL", "HCL_LONG", "LAB", "CUBEHELIX",
   "CUBEHELIX_LONG"}
ApiBins == {0 - 1, MaxValue}
TypedBins == {NaN, Num(1)}
WheelDeltas == {0 - 1, 1}
NifValues == 0..MaxValue
ListenerAlphaArrays == {<<AlphaStop(One, AlphaOne), AlphaStop(0, 0)>>}
ListenerColorArrays == {<<ColorStop(One, Css(ColorMax)), ColorStop(0, Css(0))>>}
ListenerColorMaps ==
  { [colorStops |-> <<ColorStop(One, Css(0)), ColorStop(0, Css(ColorMax))>>,
     interpolationMethod |-> "HSL", discrete |-> "true", bins |-> Num(MaxValue)] }

\* Registering and removing listeners.
ListenerNext ==
  \/ CmeAddListener
  \/ \E id \in ListenerIds : CmeRemoveListener(id)
  \/ TeAddListener
  \/ \E id \in ListenerIds : TeRemoveListener(id)
  \/ TfeAddListener
  \/ \E id \in ListenerIds : TfeRemoveListener(id)
  \/ NifAddListener
  \/ \E id \in ListenerIds : NifRemoveListener(id)

\* The methods and the input elements that change what a listener is told.
MutationNext ==
  \/ \E s \in ApiStops : TeAddControlPoint(s, 0)
  \/ \E x \in DownXs : TeRemoveControlPointAt(x, CanvasHeight)
  \/ \E arr \in ListenerAlphaArrays : TeSetAlphaStops(arr)
  \/ \E cm \in ListenerColorMaps : TeSetColorMap(cm)
  \/ \E arr \in ListenerColorArrays : CmeSetColorStops(arr)
  \/ \E method \in Methods : CmeSetInterpolationMethods(method)
  \/ \E d \in BOOLEAN : CmeSetDiscrete(d)
  \/ \E b \in ApiBins : CmeSetBins(b)
  \/ \E cm \in ListenerColorMaps : CmeSetColorMap(cm)
  \/ \E method \in Methods : CmeSelectChange(method)
  \/ CmeDiscreteChange
  \/ \E v \in TypedBins : CmeBinsChange(v)
  \/ \E deltaY \in WheelDeltas : CmeBinsWheel(deltaY)
  \/ CmeValidateBins
  \/ \E value \in NifValues : NifSetValue(Num(value))
  \/ \E deltaY \in WheelDeltas : NifWheel(deltaY)

\* Every class under its listeners, its methods and its input elements.
SpecListeners == Init /\ [][ListenerNext \/ MutationNext]_vars

\* The listeners and the mouse of an editor on its own.
DragNext ==
  \/ CmeAddListener
  \/ TeAddListener
  \/ \E b \in Buttons, x \in DownXs, y \in DownYs : TeMouseDown(b, x, y)
  \/ \E b \in Buttons, x \in DownXs, y \in DownYs : CmeMouseDown(b, x, y)
  \/ \E x \in MoveXs, y \in MoveYs : MouseMove(x, y)
  \/ MouseUp

SpecDrag == InitStops /\ [][DragNext]_vars

\* A TransferFunctionEditor: its listeners, its two setters, and the select
\* and the mouse of its ColorMapEditor.
TfeNext ==
  \/ TfeAddListener
  \/ \E arr \in ListenerAlphaArrays : TeSetAlphaStops(arr)
  \/ \E arr \in ListenerColorArrays : CmeSetColorStops(arr)
  \/ \E method \in Methods : CmeSelectChange(method)
  \/ \E b \in Buttons, x \in DownXs, y \in DownYs : CmeMouseDown(b, x, y)
  \/ \E x \in MoveXs, y \in MoveYs : MouseMove(x, y)
  \/ MouseUp

InitTfe == Init /\ widget = "TransferFunctionEditor"
SpecTfe == InitTfe /\ [][TfeNext]_vars

\* The transfer functions that a TransferFunctionEditor is created with.
InitialAlphaStops ==
  { <<AlphaStop(0, 0), AlphaStop(One, AlphaOne)>>,
    <<AlphaStop(0, AlphaOne), AlphaStop(One \div 2, 0), AlphaStop(One, AlphaOne)>> }
InitialColorMaps ==
  { [colorStops |-> <<ColorStop(0, Css(0)), ColorStop(One, Css(ColorMax))>>,
     interpolationMethod |-> "RGB", discrete |-> d, bins |-> Num(MaxValue)] :
    d \in {"true", "false"} }
InitialTransferFunctions ==
  { TeView(stops, cm) : stops \in InitialAlphaStops, cm \in InitialColorMaps }

\* A TransferFunctionEditor created with an initial transfer function, under
\* its listeners and its setters.
InitCreated ==
  /\ widget = "TransferFunctionEditor"
  /\ options \in InitialTransferFunctions
  /\ returned = NoReturn
  /\ callbackBodies = NoBodies
  /\ cmePopup = NoPopup
  /\ picker = CpNew(DefaultInitialColor)
  /\ TfeNew(options)
  /\ tfeCallbacks = <<>>
  /\ tfeCallbackCounter = 0
  /\ NifInit
  /\ moveListeners = <<>>
  /\ notified = <<>>
  /\ threw = FALSE
  /\ removed = {}
  /\ lastOp = "new"

CreatedNext ==
  \/ TfeAddListener
  \/ \E arr \in ListenerAlphaArrays : TeSetAlphaStops(arr)
  \/ \E arr \in ListenerColorArrays : CmeSetColorStops(arr)
  \/ \E method \in Methods : CmeSelectChange(method)

SpecCreated == InitCreated /\ [][CreatedNext]_vars

\* Arguments of the methods and of the bins field next to getDiscreteColorMap.
BinsColorMaps ==
  { [colorStops |-> <<ColorStop(One \div 2, Css(0)), ColorStop(One, Css(ColorMax))>>,
     interpolationMethod |-> "RGB", discrete |-> "true", bins |-> Num(MaxValue + 1)],
    [colorStops |-> <<ColorStop(0, Css(0)), ColorStop(One, Css(ColorMax))>>,
     interpolationMethod |-> "RGB", discrete |-> "false", bins |-> Num(MaxValue + MaxValue)] }

\* A ColorMapEditor under the methods and the input elements that set discrete
\* and bins, and getDiscreteColorMap.
BinsNext ==
  \/ CmeAddListener
  \/ \E d \in BOOLEAN : CmeSetDiscrete(d)
  \/ \E b \in ApiBins : CmeSetBins(b)
  \/ \E cm \in BinsColorMaps : CmeSetColorMap(cm)
  \/ CmeDiscreteChange
  \/ \E v \in TypedBins : CmeBinsChange(v)
  \/ \E deltaY \in WheelDeltas : CmeBinsWheel(deltaY)
  \/ CmeValidateBins
  \/ CmeGetDiscreteColorMap

InitBins == Init /\ widget = "ColorMapEditor"
SpecBins == InitBins /\ [][BinsNext]_vars

\* The positions in [0,1] that are sampled, and the stops and colour maps
\* that are sampled from.  A colour is one channel here, and on one channel
\* the ten interpolators agree: each of them gives its first colour at 0 and
\* its second colour at 1.
SamplePoints == 0..One
SampleAlphaArrays ==
  { <<AlphaStop(One \div 2, 0), AlphaStop(One, AlphaOne)>>,
    <<AlphaStop(0, AlphaOne), AlphaStop(One \div 2, 0)>>,
    TeDefaultAlphaStops }
SampleColorMaps ==
  { [colorStops |-> <<ColorStop(0, Css(0)), ColorStop(One \div 2, Css(ColorMax)),
                      ColorStop(One, Css(1))>>,
     interpolationMethod |-> method, discrete |-> "false", bins |-> Num(DefaultBins)] :
    method \in InterpolationMethod }
  \cup
  { [colorStops |-> <<ColorStop(0, Css(0)), ColorStop(One \div 2, Css(ColorMax)),
                      ColorStop(One \div 2, Css(0)), ColorStop(One, Css(1))>>,
     interpolationMethod |-> "RGB", discrete |-> "false", bins |-> Num(DefaultBins)],
    [colorStops |-> <<ColorStop(0, Css(0)), ColorStop(One \div 2, Css(ColorMax)),
                      ColorStop(One, Css(1))>>,
     interpolationMethod |-> "HSL", discrete |-> "true", bins |-> Num(MaxValue)] }

\* A TransparencyEditor under its setters and its sampling methods.
SampleNext ==
  \/ \E arr \in SampleAlphaArrays : TeSetAlphaStops(arr)
  \/ \E stop \in ApiStops : TeAddControlPoint(stop, 0)
  \/ \E cm \in SampleColorMaps : TeSetColorMap(cm)
  \/ \E x \in SamplePoints : TeGetAlpha(x)
  \/ \E x \in SamplePoints : TeGetRGB(x)
  \/ \E x \in SamplePoints : TeGetRGBA(x)

InitSample == Init /\ widget = "TransparencyEditor"
SpecSample == InitSample /\ [][SampleNext]_vars

\* TransparencyEditor.getAlphaStops and ColorMapEditor.getColorStops: each
\* returns the array that the editor holds, not a copy of it.
TeGetAlphaStops ==
  /\ widget = "TransparencyEditor"
  /\ Query("te.getAlphaStops", 0, alphaStops, FALSE)

CmeGetColorStops ==
  /\ widget = "ColorMapEditor"
  /\ Query("cme.getColorStops", 0, colorStops, FALSE)

\* What one statement of the caller makes of an array that it holds:
\* arr[k].stop = stop, or arr.pop().
CallerStatements(arr) ==
  { [arr EXCEPT ![k].stop = stop] : k \in 1..Len(arr), stop \in ApiStops }
    \cup (IF arr = <<>> THEN {} ELSE {SubSeq(arr, 1, Len(arr) - 1)})

\* The operations after which the caller holds the array of the editor: the
\* getter that returned it, the setter that stored the caller's array, and
\* the caller's own statements on it.
HoldsAlphaStops == lastOp \in {"te.getAlphaStops", "te.setAlphaStops", "caller.alphaStops"}
HoldsColorStops == lastOp \in {"cme.getColorStops", "cme.setColorStops", "caller.colorStops"}

\* The caller modifies the array that getAlphaStops returned or that
\* setAlphaStops was given.  It is this.alphaStops; no method of the editor
\* runs, so that the d3 scale and the canvas stay as they were and no listener
\* is called.
CallerModifiesAlphaStops ==
  /\ widget = "TransparencyEditor"
  /\ HoldsAlphaStops
  /\ alphaStops' \in CallerStatements(alphaStops)
  /\ returned' = IF returned.op = "te.getAlphaStops" THEN [returned EXCEPT !.value = alphaStops']
                 ELSE returned
  /\ notified' = <<>>
  /\ threw' = FALSE
  /\ lastOp' = "caller.alphaStops"
  /\ UNCHANGED <<widget, picker, cmePopup, callbackBodies, options, CmeVars, TfeVars, NifVars, removed, alphaRange, colorMap, colorRangeCache,
                 TeIdle, TeListenerVars>>

\* The same for the array that getColorStops returned or that setColorStops
\* was given, which is this.colorStops.
CallerModifiesColorStops ==
  /\ widget = "ColorMapEditor"
  /\ HoldsColorStops
  /\ colorStops' \in CallerStatements(colorStops)
  /\ returned' = IF returned.op = "cme.getColorStops" THEN [returned EXCEPT !.value = colorStops']
                 ELSE returned
  /\ notified' = <<>>
  /\ threw' = FALSE
  /\ lastOp' = "caller.colorStops"
  /\ UNCHANGED <<widget, picker, cmePopup, callbackBodies, options, TeVars, TfeVars, NifVars, removed, cmeSettings, cmeInputs,
                 CmeIdle, CmeListenerVars>>

\* An editor on its own and a caller that keeps the arrays it was returned
\* and the arrays it passed.
AliasNext ==
  \/ TeAddListener
  \/ CmeAddListener
  \/ \E arr \in AlphaStopArrays : TeSetAlphaStops(arr)
  \/ \E arr \in ColorStopArrays : CmeSetColorStops(arr)
  \/ TeGetAlphaStops
  \/ CmeGetColorStops
  \/ CallerModifiesAlphaStops
  \/ CallerModifiesColorStops

SpecAlias == InitStops /\ [][AliasNext]_vars

\* The colours and numbers that a ColorPicker is given: the corners of the
\* colour cube, the greys, and a string that is no colour.
PickerLevels == {0, ColorMax}
PickerColors ==
  {RgbString(r, g, b) : r \in PickerLevels, g \in PickerLevels, b \in PickerLevels}
    \cup {RgbString(k, k, k) : k \in 0..ColorMax}
    \cup {InvalidString}
PickerHues == {NaN, Num(0), Num(300)}
PickerSaturations == {NaN, Num(0), Num(ColorMax)}
TypedHues == {NaN, Num(0 - 1), Num(120), Num(361)}
PickerXs == {0, ColorMax}
PickerYs == {0 - 1, 1, ColorMax}

\* A ColorPicker under its setters, its input fields and the mouse.
PickerNext ==
  \/ CpOnChange
  \/ \E color \in PickerColors : CpSetHEX(color)
  \/ \E r \in PickerLevels, g \in PickerLevels, b \in PickerLevels : CpSetRGB(r, g, b)
  \/ CpSetHSL
  \/ \E h \in PickerHues, s \in PickerSaturations, v \in PickerSaturations : CpSetHSV(h, s, v)
  \/ \E value \in PickerColors : CpHexInput(value)
  \/ \E value \in TypedHues : CpHueInput(value)
  \/ \E deltaY \in WheelDeltas : CpHueWheel(deltaY)
  \/ \E y \in PickerYs : CpHueMouseDown(y)
  \/ \E b \in Buttons, x \in PickerXs, y \in PickerYs : CpSvMouseDown(b, x, y)
  \/ \E x \in PickerXs, y \in PickerYs : CpMouseMove(x, y)
  \/ CpMouseUp

InitPicker ==
  /\ widget = "ColorPicker"
  /\ options = NoOptions
  /\ returned = NoReturn
  /\ callbackBodies = NoBodies
  /\ cmePopup = NoPopup
  /\ \E color \in PickerColors : picker = CpNew(color)
  /\ CmeInit /\ TeInit
  /\ tfeCallbacks = <<>>
  /\ tfeCallbackCounter = 0
  /\ NifInit
  /\ moveListeners = <<>>
  /\ notified = <<>>
  /\ threw = FALSE
  /\ removed = {}
  /\ lastOp = "new"

SpecPicker == InitPicker /\ [][PickerNext]_vars

\* The options, the arguments and the typed contents of a NumberInputField.
NifOptions ==
  {NoOptions} \cup { [min |-> min, max |-> max] : min \in {Undefined, Num(0)},
                                                   max \in {Undefined, Num(MaxValue)} }
NifNumbers == {NaN, Num(0 - 1), Num(1), Num(MaxValue + 1)}

\* A NumberInputField under its methods and the listeners of its input.
NifNext ==
  \/ NifAddListener
  \/ \E value \in NifNumbers : NifSetValue(value)
  \/ \E value \in NifNumbers : NifSetValueSilently(value)
  \/ \E deltaY \in WheelDeltas : NifWheel(deltaY)
  \/ \E typed \in NifNumbers : NifInput(typed)
  \/ NifFocusOut
  \/ NifKeypressEnter

InitNif ==
  /\ widget = "NumberInputField"
  /\ options \in NifOptions
  /\ returned = NoReturn
  /\ callbackBodies = NoBodies
  /\ cmePopup = NoPopup
  /\ picker = CpNew(DefaultInitialColor)
  /\ CmeInit /\ TeInit
  /\ tfeCallbacks = <<>>
  /\ tfeCallbackCounter = 0
  /\ NifInit
  /\ moveListeners = <<>>
  /\ notified = <<>>
  /\ threw = FALSE
  /\ removed = {}
  /\ lastOp = "new"

SpecNif == InitNif /\ [][NifNext]_vars

\* setColorMap(getColorMap()): the setter with the object that the getter of
\* the same editor has just made.
CmeSetOwnColorMap ==
  /\ widget = "ColorMapEditor"
  /\ LET cm == getColorMap(colorStops, cmeSettings)
     IN  /\ colorStops' = sortControlPoints(cm.colorStops)
         /\ cmeSettings' = [interpolationMethod |-> cm.interpolationMethod,
                            discrete |-> cm.discrete, bins |-> BinsOf(cm)]
  /\ cmeInputs' = CmeInputsOf(cmeSettings')
  /\ lastOp' = "cme.setColorMap.own"
  /\ UNCHANGED <<NotCme, CmeIdle, CmeListenerVars>>
  /\ CmeNotify

\* A ColorMapEditor under its setters, its input elements and the round trip
\* of its colour map.
RoundTripNext ==
  \/ CmeAddListener
  \/ \E d \in BOOLEAN : CmeSetDiscrete(d)
  \/ \E b \in ApiBins : CmeSetBins(b)
  \/ \E method \in Methods : CmeSetInterpolationMethods(method)
  \/ \E cm \in BinsColorMaps : CmeSetColorMap(cm)
  \/ \E arr \in ColorStopArrays : CmeSetColorStops(arr)
  \/ CmeDiscreteChange
  \/ CmeSetOwnColorMap

SpecRoundTrip == InitBins /\ [][RoundTripNext]_vars

\* TransparencyEditor.getColorMap returns the object that the editor holds.
TeGetColorMap ==
  /\ widget = "TransparencyEditor"
  /\ Query("te.getColorMap", 0, colorMap, FALSE)

\* The caller holds the colour map object after getColorMap returned it,
\* after it passed it to setColorMap, and after its own statements on it.
HoldsColorMap ==
  lastOp \in {"te.getColorMap", "te.setColorMap", "te.setColorMap.again", "caller.colorMap"}

\* What one statement of the caller makes of a colour map that it holds: a
\* statement on its colorStops, or map.interpolationMethod = method.
ColorMapStatements(cm) ==
  { [cm EXCEPT !.colorStops = stops] : stops \in CallerStatements(cm.colorStops) }
    \cup { [cm EXCEPT !.interpolationMethod = method] : method \in Methods }

\* The caller modifies the colour map object that the editor holds.  No
\* method of the editor runs and colorRangeCache keeps the scale that it holds
\* for the object.
CallerModifiesColorMap ==
  /\ widget = "TransparencyEditor"
  /\ HoldsColorMap
  /\ colorMap' \in ColorMapStatements(colorMap) \ {colorMap}
  /\ returned' = IF returned.op = "te.getColorMap" THEN [returned EXCEPT !.value = colorMap']
                 ELSE returned
  /\ notified' = <<>>
  /\ threw' = FALSE
  /\ lastOp' = "caller.colorMap"
  /\ UNCHANGED <<widget, picker, cmePopup, callbackBodies, options, CmeVars, TfeVars, NifVars, removed, alphaStops, alphaRange,
                 colorRangeCache, TeIdle, TeListenerVars>>

\* setColorMap with the object that the editor holds already: the editor
\* stores it, calls its listeners and draws, and getColorRange finds the
\* object in colorRangeCache.
TeSetColorMapAgain ==
  /\ widget = "TransparencyEditor"
  /\ HoldsColorMap
  /\ notified' = TeSendUpdate(alphaStops, colorMap)
  /\ threw' = FALSE
  /\ lastOp' = "te.setColorMap.again"
  /\ UNCHANGED <<NotTe, alphaStops, alphaRange, colorMap, colorRangeCache, TeIdle, TeListenerVars>>

\* The colour maps that the caller makes and passes to setColorMap.
CacheColorMaps ==
  { [colorStops |-> <<ColorStop(0, Css(0)), ColorStop(One, Css(ColorMax))>>,
     interpolationMethod |-> "RGB", discrete |-> "false", bins |-> Num(DefaultBins)],
    [colorStops |-> <<ColorStop(0, Css(ColorMax)), ColorStop(One \div 2, Css(0)),
                      ColorStop(One, Css(1))>>,
     interpolationMethod |-> "HSL", discrete |-> "false", bins |-> Num(DefaultBins)] }

\* A TransparencyEditor, its colour map and a caller that keeps the object.
CacheNext ==
  \/ TeAddListener
  \/ \E cm \in CacheColorMaps : TeSetColorMap(cm)
  \/ TeSetColorMapAgain
  \/ TeGetColorMap
  \/ CallerModifiesColorMap
  \/ \E x \in SamplePoints : TeGetRGB(x)

SpecCache == InitSample /\ [][CacheNext]_vars

\* Discrete colour maps: stops from 0 to 1, stops that begin after 0, and
\* three stops with the brightest colour in the middle.
DiscreteColorMaps ==
  { [colorStops |-> <<ColorStop(0, Css(0)), ColorStop(One, Css(ColorMax))>>,
     interpolationMethod |-> "RGB", discrete |-> "true", bins |-> Num(MaxValue)],
    [colorStops |-> <<ColorStop(Eps, Css(0)), ColorStop(One, Css(ColorMax))>>,
     interpolationMethod |-> "RGB", discrete |-> "true", bins |-> Num(MaxValue)],
    [colorStops |-> <<ColorStop(0, Css(0)), ColorStop(One \div 2, Css(ColorMax)),
                      ColorStop(One, Css(1))>>,
     interpolationMethod |-> "RGB", discrete |-> "true", bins |-> Num(MaxValue)],
    [colorStops |-> <<ColorStop(0, Css(0)), ColorStop(One \div 2, Css(ColorMax)),
                      ColorStop(One, Css(1))>>,
     interpolationMethod |-> "RGB", discrete |-> "true", bins |-> Num(MaxValue + 1)] }

\* A TransparencyEditor with a discrete colour map under its sampling methods.
DiscreteNext ==
  \/ \E arr \in SampleAlphaArrays : TeSetAlphaStops(arr)
  \/ \E cm \in DiscreteColorMaps : TeSetColorMap(cm)
  \/ \E x \in SamplePoints : TeGetRGB(x)
  \/ \E x \in SamplePoints : TeGetRGBA(x)

SpecDiscrete == InitSample /\ [][DiscreteNext]_vars

\* The editor while one of its listeners runs: the Map callbacks, the counter,
\* the ids that the iteration has invoked, and the ids that addListener invoked.
Running(cbs, counter, iterated) ==
  [cbs |-> cbs, counter |-> counter, iterated |-> iterated, added |-> <<>>]

\* The listener id is invoked: a listener that calls addListener stores a new
\* callback under callbackCounter, which addListener invokes at once; a
\* listener that calls removeListener deletes a key of the Map.
Invoke(st, id, bodies) ==
  LET body == IF id \in DOMAIN bodies THEN bodies[id] ELSE Reads
  IN  CASE body.does = "addListener" ->
             [st EXCEPT !.cbs = Append(@, st.counter), !.counter = @ + 1,
                        !.added = Append(@, st.counter)]
        [] body.does = "removeListener" -> [st EXCEPT !.cbs = MapDelete(@, body.id)]
        [] OTHER -> st

\* callbacks.forEach((value) => value(this)): Map.prototype.forEach visits
\* the entries in insertion order, visits an entry that was added while it
\* runs, and does not visit an entry that was deleted before its turn.
RECURSIVE ForEach(_, _, _)
ForEach(st, visited, bodies) ==
  LET rest == SelectSeq(st.cbs, LAMBDA c : c \notin visited)
  IN  IF rest = <<>> THEN st
      ELSE ForEach(Invoke([st EXCEPT !.iterated = Append(@, Head(rest))], Head(rest), bodies),
                   visited \cup {Head(rest)}, bodies)

\* The rounds of one operation: the iteration over the Map, then the calls
\* that addListener made while the iteration ran.
Rounds(cls, st, seen) ==
  Round(cls, st.iterated, seen)
    \o [k \in 1..Len(st.added) |-> [cls |-> cls, ids |-> <<st.added[k]>>, seen |-> seen]]

\* The ids that the listeners deleted while they ran.
Deleted(cbs, st) == (Keys(cbs) \cup Keys(st.added)) \ Keys(st.cbs)

ListenerBodies == {Reads, Adds} \cup {Removes(id) : id \in ListenerIds}

\* TransparencyEditor.addListener with a listener that has a body: the
\* callback is stored and invoked at once.
TeAddListenerCalling(body) ==
  /\ widget = "TransparencyEditor"
  /\ LET id == teCallbackCounter
         bodies == (id :> body) @@ callbackBodies
         st == Invoke(Running(Append(teCallbacks, id), id + 1, <<id>>), id, bodies)
     IN  /\ st.counter <= MaxListeners + 1
         /\ callbackBodies' = bodies
         /\ teCallbacks' = st.cbs
         /\ teCallbackCounter' = st.counter
         /\ removed' = removed \cup Deleted(Append(teCallbacks, id), st)
         /\ notified' = Rounds("TransparencyEditor", st, TeView(alphaStops, colorMap))
  /\ threw' = FALSE
  /\ lastOp' = "te.addListener"
  /\ UNCHANGED <<widget, picker, cmePopup, options, returned, CmeVars, TfeVars, NifVars, alphaStops, alphaRange,
                 colorMap, colorRangeCache, TeIdle>>

\* TransparencyEditor.setAlphaStops when the listeners have bodies.
TeSetAlphaStopsCalling(arr) ==
  /\ widget = "TransparencyEditor"
  /\ alphaStops' = sortControlPoints(arr)
  /\ alphaRange' = updateAlphaRange(alphaStops')
  /\ LET st == ForEach(Running(teCallbacks, teCallbackCounter, <<>>), {}, callbackBodies)
     IN  /\ st.counter <= MaxListeners + 1
         /\ teCallbacks' = st.cbs
         /\ teCallbackCounter' = st.counter
         /\ removed' = removed \cup Deleted(teCallbacks, st)
         /\ notified' = Rounds("TransparencyEditor", st, TeView(alphaStops', colorMap))
  /\ threw' = FALSE
  /\ lastOp' = "te.setAlphaStops"
  /\ UNCHANGED <<widget, picker, cmePopup, callbackBodies, options, returned, CmeVars, TfeVars, NifVars,
                 colorMap, colorRangeCache, TeIdle>>

\* ColorMapEditor.addListener with a listener that has a body.
CmeAddListenerCalling(body) ==
  /\ widget = "ColorMapEditor"
  /\ LET id == cmeCallbackCounter
         bodies == (id :> body) @@ callbackBodies
         st == Invoke(Running(Append(cmeCallbacks, id), id + 1, <<id>>), id, bodies)
     IN  /\ st.counter <= MaxListeners + 1
         /\ callbackBodies' = bodies
         /\ cmeCallbacks' = st.cbs
         /\ cmeCallbackCounter' = st.counter
         /\ removed' = removed \cup Deleted(Append(cmeCallbacks, id), st)
         /\ notified' = Rounds("ColorMapEditor", st, CmeView(colorStops, cmeSettings))
  /\ threw' = FALSE
  /\ lastOp' = "cme.addListener"
  /\ UNCHANGED <<widget, picker, cmePopup, options, returned, TeVars, TfeVars, NifVars, colorStops, cmeSettings,
                 cmeInputs, CmeIdle>>

\* ColorMapEditor.setColorStops when the listeners have bodies.
CmeSetColorStopsCalling(arr) ==
  /\ widget = "ColorMapEditor"
  /\ colorStops' = sortControlPoints(arr)
  /\ LET st == ForEach(Running(cmeCallbacks, cmeCallbackCounter, <<>>), {}, callbackBodies)
     IN  /\ st.counter <= MaxListeners + 1
         /\ cmeCallbacks' = st.cbs
         /\ cmeCallbackCounter' = st.counter
         /\ removed' = removed \cup Deleted(cmeCallbacks, st)
         /\ notified' = Rounds("ColorMapEditor", st, CmeView(colorStops', cmeSettings))
  /\ threw' = FALSE
  /\ lastOp' = "cme.setColorStops"
  /\ UNCHANGED <<widget, picker, cmePopup, callbackBodies, options, returned, TeVars, TfeVars, NifVars, cmeSettings,
                 cmeInputs, CmeIdle>>

CallingNext ==
  \/ \E body \in ListenerBodies : TeAddListenerCalling(body)
  \/ \E arr \in AlphaStopArrays : TeSetAlphaStopsCalling(arr)
  \/ \E id \in ListenerIds : TeRemoveListener(id)
  \/ \E body \in ListenerBodies : CmeAddListenerCalling(body)
  \/ \E arr \in ColorStopArrays : CmeSetColorStopsCalling(arr)
  \/ \E id \in ListenerIds : CmeRemoveListener(id)

SpecCalling == InitStops /\ [][CallingNext]_vars

\* ---------------------------------------------- the colour picker popup
\* "hex": the notation of hsv.formatHex().
Hex(v) == [v |-> v, fmt |-> "hex"]
\* The colour string of a stop, as d3's hsv() reads it.  Of a colour the
\* editors keep one level, which stands for all three channels.
StopString(color) == RgbString(color.v, color.v, color.v)
\* colorPicker.getHEX() of a colour that has one level in all channels.
getHEX(p) == Hex(p.hsv.v.num)

\* The stop that the click handler's loop ends with: the first stop within
\* controlPointSize of the click, else the last stop, else null (-1).
ClickedStop(stops, x) ==
  LET i == CmeFirstHit(stops, 0, Len(stops) - 1, x)
  IN  IF i # 0 - 1 THEN i ELSE Len(stops) - 1

\* A click handler that leaves the listener of the click before registered.
PickerKeepListener(cbs, id) == cbs
\* this.colorPicker.removeListener(colorPickerListener)
PickerRemoveListener(cbs, id) == SelectSeq(cbs, LAMBDA c : c.id # id)

\* The picker's listeners run in the order of registration; each one does
\* stop.color = colorPicker.getHEX(), draws, and calls sendUpdates.
RECURSIVE PickerSendUpdate(_, _, _)
PickerSendUpdate(st, cbs, hex) ==
  IF cbs = <<>> THEN st
  ELSE LET stops == [st.stops EXCEPT ![Head(cbs).stop + 1].color = hex]
       IN  PickerSendUpdate([stops |-> stops,
                             rounds |-> st.rounds \o CmeSendUpdates(stops, cmeSettings, alphaStops)],
                            Tail(cbs), hex)

\* What the listeners of the picker leave behind in the editor.
PickerNotified(st) ==
  /\ colorStops' = st.stops
  /\ notified' = st.rounds
  /\ colorMap' = IF st.rounds # <<>> THEN Forwarded(st.stops, cmeSettings, colorMap) ELSE colorMap
  /\ colorRangeCache' = Recached(colorMap')

\* The canvas's click listener: after a drag it returns; else it removes
\* the listener of the click before, loads the stop's colour into the picker
\* with setHEX, which runs the picker's listeners, and registers a listener
\* for the stop.  Whether addListener calls the new listener at once is not
\* known, so both happen.
CmeClick(x, atOnce) ==
  /\ HasCme
  /\ cmePopup.callbackCounter < MaxPopups
  /\ LET i == ClickedStop(colorStops, x)
         kept == PickerRemoveListener(cmePopup.callbacks, cmePopup.colorPickerListener)
         id == cmePopup.callbackCounter
         p == validateHueAndSaturation([picker EXCEPT !.hsv = d3HSV(StopString(At(colorStops, i).color))])
         loaded == PickerSendUpdate([stops |-> colorStops, rounds |-> <<>>], kept, getHEX(p))
         listener == [id |-> id, stop |-> i]
     IN  IF cmeDrag.draggedBefore \/ i = 0 - 1
         THEN /\ notified' = <<>>
              /\ UNCHANGED <<picker, cmePopup, colorStops, colorMap, colorRangeCache>>
         ELSE /\ picker' = p
              /\ cmePopup' = [colorPickerListener |-> id, callbacks |-> Append(kept, listener),
                              callbackCounter |-> id + 1]
              /\ PickerNotified(IF atOnce THEN PickerSendUpdate(loaded, <<listener>>, getHEX(p))
                                ELSE loaded)
  /\ threw' = FALSE
  /\ lastOp' = "cme.click"
  /\ UNCHANGED <<widget, callbackBodies, options, returned, cmeSettings, cmeInputs, CmeIdle, CmeListenerVars,
                 alphaStops, alphaRange, TeDragVars, TeListenerVars, TfeVars, NifVars, removed>>

\* The user picks the colour of level k in the popup: the picker takes it
\* as setHEX does and runs its listeners.
PopupPick(k) ==
  /\ HasCme
  /\ LET p == validateHueAndSaturation([picker EXCEPT !.hsv = d3HSV(RgbString(k, k, k))])
     IN  /\ picker' = p
         /\ PickerNotified(PickerSendUpdate([stops |-> colorStops, rounds |-> <<>>],
                                            cmePopup.callbacks, getHEX(p)))
  /\ threw' = FALSE
  /\ lastOp' = "cp.pick"
  /\ UNCHANGED <<widget, cmePopup, callbackBodies, options, returned, cmeSettings, cmeInputs, CmeIdle,
                 CmeListenerVars, alphaStops, alphaRange, TeDragVars, TeListenerVars, TfeVars, NifVars,
                 removed>>

PopupNext ==
  \/ \E x \in DownXs, atOnce \in BOOLEAN : CmeClick(x, atOnce)
  \/ \E k \in 0..ColorMax : PopupPick(k)

InitPopup == Init /\ HasCme
SpecPopup == InitPopup /\ [][PopupNext]_vars

\* Arrays with two interior stops, set before the mouse is pressed.
SessionColorStops ==
  <<ColorStop(0, Css(0)), ColorStop(Eps, Css(ColorMax)),
    ColorStop(One - Eps, Css(0)), ColorStop(One, Css(ColorMax))>>
SessionAlphaStops ==
  <<AlphaStop(0, 0), AlphaStop(Eps, AlphaOne), AlphaStop(One - Eps, AlphaOne),
    AlphaStop(One, AlphaOne)>>

\* An editor on its own with four stops under the mouse.
SessionNext ==
  \/ CmeSetColorStops(SessionColorStops)
  \/ TeSetAlphaStops(SessionAlphaStops)
  \/ \E b \in Buttons, x \in DownXs, y \in DownYs : TeMouseDown(b, x, y)
  \/ \E b \in Buttons, x \in DownXs, y \in DownYs : CmeMouseDown(b, x, y)
  \/ \E x \in MoveXs, y \in MoveYs : MouseMove(x, y)
  \/ MouseUp

SpecSession == InitStops /\ [][SessionNext]_vars

Next == StopsNext \/ ListenerNext \/ MutationNext \/ TfeNext \/ BinsNext \/ SampleNext \/ AliasNext
          \/ PickerNext \/ NifNext \/ RoundTripNext \/ CacheNext \/ DiscreteNext
          \/ SessionNext \/ CallingNext \/ PopupNext

Spec == Init /\ [][Next]_vars

\* ------------------------------------------------------------------ claims
IsSortedByStop(s) == \A i \in 1..(Len(s) - 1) : s[i].stop <= s[i + 1].stop
Owners == {moveListeners[k] : k \in 1..Len(moveListeners)}
IsInterior(s, i) == i > 0 /\ i < Len(s) - 1
IsEnd(s, i) == Has(s, i) /\ (i = 0 \/ i = Len(s) - 1)
StrictlyBetween(s, i) == At(s, i - 1).stop < At(s, i).stop /\ At(s, i).stop < At(s, i + 1).stop

\* C1: after every stop operation on a ColorMapEditor or a TransparencyEditor
\* the stops are in ascending order of position.
C1_StopsSorted == IsSortedByStop(colorStops) /\ IsSortedByStop(alphaStops)

\* C2: after every mousemove that drags an interior stop, the position of that
\* stop lies strictly between the positions of its two neighbours.
C2_InteriorDragStrictlyBetween ==
  (lastOp = "mousemove" /\ ~threw) =>
    /\ ("te" \in Owners /\ IsInterior(alphaStops, teDragIndex))
         => StrictlyBetween(alphaStops, teDragIndex)
    /\ ("cme" \in Owners /\ IsInterior(colorStops, cmeDrag.dragIndex))
         => StrictlyBetween(colorStops, cmeDrag.dragIndex)

\* C3: a mousemove while the dragged index is 0 or length - 1 never changes a
\* position: in the TransparencyEditor at most the alpha of the dragged stop
\* changes, in the ColorMapEditor neither the stops nor the settings change and
\* nobody is notified.
C3_EndDragKeepsPosition ==
  [][lastOp' = "mousemove" =>
       /\ ("te" \in Owners /\ IsEnd(alphaStops, teDragIndex)) =>
            /\ Len(alphaStops') = Len(alphaStops)
            /\ \A k \in 1..Len(alphaStops) :
                 /\ alphaStops'[k].stop = alphaStops[k].stop
                 /\ k # teDragIndex + 1 => alphaStops'[k] = alphaStops[k]
       /\ ("cme" \in Owners /\ IsEnd(colorStops, cmeDrag.dragIndex)) =>
            /\ colorStops' = colorStops
            /\ cmeSettings' = cmeSettings
            /\ notified' = <<>>]_vars

\* C3 witness: the first stop of the default TransparencyEditor was dragged to
\* the top of the canvas; it stands at position 0 with alpha 1.
C3_Witness ==
  /\ lastOp = "mousemove"
  /\ widget = "TransparencyEditor"
  /\ teIsDragging /\ teDragIndex = 0
  /\ Len(alphaStops) = 3
  /\ alphaStops[1] = AlphaStop(0, AlphaOne)

Removals ==
  {"te.removeControlPointAt", "te.removeControlPointAt.end", "te.mousedown.right",
   "te.mousedown.right.end", "cme.mousedown.right", "cme.mousedown.right.end"}
EndRemovals ==
  {"te.removeControlPointAt.end", "te.mousedown.right.end", "cme.mousedown.right.end"}
KeepsEnds(before, after) ==
  /\ Len(after) >= Len(before) - 1
  /\ Len(before) >= 2 =>
       /\ Len(after) >= 2
       /\ after[1] = before[1]
       /\ after[Len(after)] = before[Len(before)]

\* C4: a removal never deletes the first or the last stop and never takes a
\* collection of at least 2 stops below 2; a removal aimed at the first or the
\* last stop leaves the collection unchanged and notifies nobody.
C4_RemovalKeepsEnds ==
  [][/\ lastOp' \in Removals =>
          KeepsEnds(alphaStops, alphaStops') /\ KeepsEnds(colorStops, colorStops')
     /\ lastOp' \in EndRemovals =>
          alphaStops' = alphaStops /\ colorStops' = colorStops /\ notified' = <<>>]_vars

\* C4 witness: removeControlPointAt was aimed at an end stop of a collection of
\* exactly 2 stops, which still has its 2 stops.
C4_Witness ==
  /\ lastOp = "te.removeControlPointAt.end"
  /\ Len(alphaStops) = 2
  /\ notified = <<>>

\* C5: a bulk replacement with fewer than 2 stops is rejected, so every stop
\* collection has at least 2 entries in every reachable state.
C5_AtLeastTwoStops == Len(colorStops) >= 2 /\ Len(alphaStops) >= 2

\* ------------------------------------------------------ claims on listeners
\* The callbacks, the counter and the readable state of the constructed object.
OwnCallbacks ==
  CASE widget = "ColorMapEditor" -> cmeCallbacks
    [] widget = "TransparencyEditor" -> teCallbacks
    [] widget = "TransferFunctionEditor" -> tfeCallbacks
    [] widget = "NumberInputField" -> nifCallbacks
OwnCounter ==
  CASE widget = "ColorMapEditor" -> cmeCallbackCounter
    [] widget = "TransparencyEditor" -> teCallbackCounter
    [] widget = "TransferFunctionEditor" -> tfeCallbackCounter
    [] widget = "NumberInputField" -> nifCallbackCounter
OwnView ==
  CASE widget = "ColorMapEditor" -> CmeView(colorStops, cmeSettings)
    [] widget = "TransparencyEditor" -> TeView(alphaStops, colorMap)
    [] widget = "TransferFunctionEditor" -> TeView(alphaStops, colorMap)
    [] widget = "NumberInputField" -> NifView(nifValue)
AddListenerOps == {"cme.addListener", "te.addListener", "tfe.addListener", "nif.addListener"}
RemoveListenerOps ==
  {"cme.removeListener", "te.removeListener", "tfe.removeListener", "nif.removeListener"}

\* The calls of the constructed object's callbacks in the rounds n, one after
\* the other: which callback ran and what it could read.
RECURSIVE Invocations(_)
Invocations(n) ==
  IF n = <<>> THEN <<>>
  ELSE (IF Head(n).cls = widget
        THEN [k \in 1..Len(Head(n).ids) |-> [id |-> Head(n).ids[k], seen |-> Head(n).seen]]
        ELSE <<>>) \o Invocations(Tail(n))
TimesInvoked(n, id) ==
  Cardinality({k \in 1..Len(Invocations(n)) : Invocations(n)[k].id = id})

\* C6: TransparencyEditor.addControlPoint with a position outside [0, 1]
\* leaves the alpha stops as they were and invokes no listener.
C6_OutsideRejected ==
  [][lastOp' = "te.addControlPoint.outside" =>
       /\ alphaStops' = alphaStops
       /\ Invocations(notified') = <<>>]_vars

\* C7: addListener on each of the four classes registers the callback under a
\* fresh id, the old value of the counter, and calls that callback, and no
\* other, exactly once with the state of the object, which it leaves as it was.
C7_AddListenerCallsOnce ==
  [][lastOp' \in AddListenerOps =>
       /\ OwnCounter \notin Keys(OwnCallbacks)
       /\ OwnCallbacks' = Append(OwnCallbacks, OwnCounter)
       /\ Invocations(notified') = <<[id |-> OwnCounter, seen |-> OwnView]>>
       /\ OwnView' = OwnView]_vars

\* C7 witness: a second listener was added to a TransferFunctionEditor whose
\* alpha stops had been replaced; it was called once and saw the new stops.
C7_Witness ==
  /\ lastOp = "tfe.addListener"
  /\ tfeCallbacks = <<0, 1>>
  /\ Invocations(notified) = <<[id |-> 1, seen |-> TeView(alphaStops, colorMap)]>>
  /\ alphaStops # sortControlPoints(TeDefaultAlphaStops)

\* No call of a callback whose id was removed, and outside addListener every
\* registered callback is called.
RemovedStaySilent ==
  /\ \A id \in removed : TimesInvoked(notified, id) = 0
  /\ (lastOp \notin AddListenerOps /\ Invocations(notified) # <<>>) =>
       \A id \in Keys(OwnCallbacks) : TimesInvoked(notified, id) >= 1

\* C8: once removeListener(id) has deleted a callback no later operation calls
\* it, while the callbacks that are still registered are called; removeListener
\* with an id that is not registered changes neither the callbacks nor the state.
C8_RemoveListenerSilences ==
  [][/\ RemovedStaySilent'
     /\ (lastOp' \in RemoveListenerOps /\ removed' = removed) =>
          /\ OwnCallbacks' = OwnCallbacks
          /\ OwnCounter' = OwnCounter
          /\ OwnView' = OwnView
          /\ notified' = <<>>]_vars

\* C8 witness: of two listeners of a ColorMapEditor the first was removed, and
\* setBins called the second one only.
C8_Witness ==
  /\ widget = "ColorMapEditor"
  /\ lastOp = "cme.setBins"
  /\ removed = {0}
  /\ cmeCallbacks = <<1>>
  /\ Invocations(notified) = <<[id |-> 1, seen |-> CmeView(colorStops, cmeSettings)]>>

Editors == {"ColorMapEditor", "TransparencyEditor", "TransferFunctionEditor"}

\* C9: an operation that changes what an editor's listeners can read calls the
\* registered callbacks once each, in the order of their registration, and
\* each of them reads the state the operation ends in.
C9_ChangeNotifiesOnceInOrder ==
  [][(widget \in Editors /\ OwnView' # OwnView) =>
       Invocations(notified') =
         [k \in 1..Len(OwnCallbacks') |-> [id |-> OwnCallbacks'[k], seen |-> OwnView']]]_vars

InteriorDrag ==
  \/ widget = "TransparencyEditor" /\ teIsDragging /\ IsInterior(alphaStops, teDragIndex)
  \/ widget = "ColorMapEditor" /\ cmeDrag.isDragging /\ IsInterior(colorStops, cmeDrag.dragIndex)

\* C10: a mousemove event during the drag of an interior stop calls every
\* registered callback exactly once.
C10_OneNotificationPerMove ==
  (lastOp = "mousemove" /\ ~threw /\ InteriorDrag) =>
    \A id \in Keys(OwnCallbacks) : TimesInvoked(notified, id) = 1

\* ------------------------------------------- claims on the colour map and alpha
\* C11: in a TransferFunctionEditor every callback of the editor reads a
\* transfer function whose colorMap is the ColorMapEditor's getColorMap(), and
\* an operation that changes that colour map calls every registered callback
\* of the TransferFunctionEditor exactly once.
C11_ColorMapForwardedOnce ==
  [][widget = "TransferFunctionEditor" =>
       /\ \A k \in 1..Len(Invocations(notified')) :
            Invocations(notified')[k].seen.colorMap = getColorMap(colorStops', cmeSettings')
       /\ getColorMap(colorStops', cmeSettings') # getColorMap(colorStops, cmeSettings) =>
            \A id \in Keys(tfeCallbacks') : TimesInvoked(notified', id) = 1]_vars

\* C12: getTransferFunction(), called right after a TransferFunctionEditor was
\* created with the transfer function tf, returns a value equal to tf, for a
\* discrete and for a continuous colour map.
C12_RoundTrip ==
  (widget = "TransferFunctionEditor" /\ options # NoOptions /\ lastOp = "new")
    => TeView(alphaStops, colorMap) = options

IsNum(n) == DOMAIN n = {"num"}
GotBins == lastOp = "cme.getDiscreteColorMap" /\ ~threw

\* C13: getDiscreteColorMap returns exactly bins entries when the colour map
\* is discrete and no entry when it is not, and a second call right after the
\* first returns an equal array.
C13_BinCount ==
  [][GotBins' =>
       /\ cmeSettings'.discrete = "true" =>
            IsNum(cmeSettings'.bins) /\ Len(returned'.value) = cmeSettings'.bins.num
       /\ cmeSettings'.discrete # "true" => returned'.value = <<>>
       /\ returned'.again => returned'.value = returned.value]_vars

\* C14: the bins of a discrete colour map with n >= 1 bins are contiguous and
\* of equal width: the first lowerBound is the position of the first stop,
\* every upperBound is the next bin's lowerBound, the last upperBound is the
\* position of the last stop, and every center is the midpoint of its bounds.
C14_BinsContiguous ==
  (GotBins /\ returned.value # <<>>) =>
    LET b == returned.value
        n == Len(returned.value)
    IN  /\ b[1].lowerBound = colorStops[1].stop * Fine
        /\ \A i \in 1..(n - 1) : b[i].upperBound = b[i + 1].lowerBound
        /\ b[n].upperBound = colorStops[Len(colorStops)].stop * Fine
        /\ \A i \in 1..n : b[i].center = Fl(b[i].lowerBound + b[i].upperBound, 2)

\* C15: with discrete = true and bins = 1 no division by zero happens: the
\* position that getColorFromColorMapAt hands to the scale is a finite number
\* for every p in [0,1], and so is the position that getColorMapBins hands to
\* the scale for its bin.
C15_OneBinIsFinite ==
  (cmeSettings.discrete = "true" /\ cmeSettings.bins = Num(1)) =>
    /\ \A x \in 0..One : IsFinite(SamplePosition(CmeView(colorStops, cmeSettings), x))
    /\ GotBins =>
         \A i \in 1..Len(returned.value) :
           IsFinite(BinPosition(getColorMap(colorStops, cmeSettings),
                                returned.value[i].center))

AtLeastOneBin(settings) ==
  settings.discrete = "true" => (IsNum(settings.bins) /\ settings.bins.num >= 1)

\* C16: in every state of a ColorMapEditor, and in every state that one of
\* its listeners is called with, discrete = true implies bins >= 1.
C16_DiscreteHasBins ==
  widget = "ColorMapEditor" =>
    /\ AtLeastOneBin(cmeSettings)
    /\ \A k \in 1..Len(notified) :
         notified[k].cls = "ColorMapEditor" => AtLeastOneBin(notified[k].seen)

\* ------------------------------------------------------ claims on sampling
AlphaIs(v, alpha) == v # NaN /\ v.num = alpha * v.den
\* v is the value at x of the straight line through the stops a and b.
OnLine(v, a, b, x) ==
  /\ v # NaN
  /\ v.num * (b.stop - a.stop)
       = v.den * (a.alpha * (b.stop - a.stop) + (b.alpha - a.alpha) * (x - a.stop))
GotAlpha == lastOp = "te.getAlpha" /\ Len(alphaStops) >= 2

\* C18: getAlpha(p) is the linear interpolation between the two alpha stops
\* that bracket p, it is stop.alpha at the position of every stop, and outside
\* the span of the stops it is the alpha of the nearest end stop, so that it
\* never leaves [0,1].
C18_AlphaInterpolatedAndClamped ==
  GotAlpha =>
    LET x == returned.arg
        v == returned.value
        n == Len(alphaStops)
    IN  /\ \A k \in 1..n : alphaStops[k].stop = x => AlphaIs(v, alphaStops[k].alpha)
        /\ \A k \in 1..(n - 1) :
             (alphaStops[k].stop <= x /\ x <= alphaStops[k + 1].stop
                /\ alphaStops[k].stop < alphaStops[k + 1].stop)
               => OnLine(v, alphaStops[k], alphaStops[k + 1], x)
        /\ x < alphaStops[1].stop => AlphaIs(v, alphaStops[1].alpha)
        /\ x > alphaStops[n].stop => AlphaIs(v, alphaStops[n].alpha)
        /\ v # NaN /\ 0 <= v.num /\ v.num <= AlphaOne * v.den

\* C17: getRGBA(p) is the colour getRGB(p) with the opacity getAlpha(p), for
\* every p in [0,1]: its opacity channel is the level of getAlpha(p), where
\* the alpha 0 is the level 0 and the alpha 1 is the full level.
C17_OpacityIsAlpha ==
  lastOp = "te.getRGBA" =>
    LET alpha == getAlpha(alphaRange, returned.arg)
    IN  /\ returned.value.v = getRGB(colorMap, returned.arg).v
        /\ alpha # NaN
        /\ returned.value.opacity = RoundDiv(alpha.num * ColorMax, alpha.den * AlphaOne)

\* The colour that getRGB returned is the colour of every stop of the colour
\* map that stands at the sampled position.
ReturnsStopColors ==
  \A k \in 1..Len(colorMap.colorStops) :
    colorMap.colorStops[k].stop = returned.arg =>
      /\ returned.value.fmt # "undefined"
      /\ returned.value.v = colorMap.colorStops[k].color.v
DistinctPositions(stops) ==
  \A j, k \in 1..Len(stops) : j # k => stops[j].stop # stops[k].stop

CallerOps == {"caller.alphaStops", "caller.colorStops"}
StopsChanged == alphaStops' # alphaStops \/ colorStops' # colorStops
Listening ==
  \/ widget = "TransparencyEditor" /\ teCallbacks # <<>>
  \/ widget = "ColorMapEditor" /\ cmeCallbacks # <<>>

\* C20: the stops of an editor change only through the editor's own
\* operations.  A statement of the caller on an array that getColorStops or
\* getAlphaStops returned, or that setColorStops or setAlphaStops was given,
\* leaves the stops of the editor as they are, and no step changes the stops
\* of an editor that has listeners without calling them.
C20_StopsChangeOnlyThroughEditor ==
  [][ /\ lastOp' \in CallerOps => ~StopsChanged
      /\ (StopsChanged /\ Listening) => notified' # <<>> ]_vars

\* The colours that the callback of the ColorPicker was handed by the last
\* operation.
Delivered == {notified[k].seen : k \in 1..Len(notified)}

\* C21: the ColorPicker has a defined hue in every state, and every colour
\* that is delivered to its callback has defined hues, in its hsv and in its
\* hsl representation.
C21_HueDefined ==
  widget = "ColorPicker" =>
    /\ picker.hsv.h \notin {NaN, Undefined}
    /\ \A color \in Delivered :
         /\ color.hsv.h \notin {NaN, Undefined}
         /\ color.hsl.h \notin {NaN, Undefined}

\* C22: after every operation on a TransparencyEditor every alpha stop has a
\* position in [0, 1] and an alpha in [0, 1].
C22_AlphaStopsInRange ==
  widget = "TransparencyEditor" =>
    \A k \in 1..Len(alphaStops) :
      /\ 0 <= alphaStops[k].stop /\ alphaStops[k].stop <= One
      /\ 0 <= alphaStops[k].alpha /\ alphaStops[k].alpha <= AlphaOne

\* C23: the value of a NumberInputField is a number in every state, whatever
\* its min and max are and whatever was set, typed, wheeled or submitted.
C23_ValueIsNumber == widget = "NumberInputField" => IsNumber(nifValue)

\* The position p leaves room for Number.EPSILON on both sides between the
\* neighbours of the stop with index i.
BetweenNeighbours(s, i, p) ==
  At(s, i - 1).stop + Eps <= p /\ p <= At(s, i + 1).stop - Eps

\* C24: a mousemove that drags an interior stop to a position between its
\* neighbours puts that stop at exactly the position of the pointer, an alpha
\* stop with exactly the alpha of the pointer, and leaves the number of stops
\* and every other stop as they were.
C24_InteriorDragSetsStop ==
  [][\A x \in MoveXs, y \in MoveYs :
       (MouseMove(x, y) /\ ~threw') =>
         LET n == pixelToNormalized(x, y) IN
         /\ ("te" \in Owners /\ IsInterior(alphaStops, teDragIndex)
               /\ BetweenNeighbours(alphaStops, teDragIndex, n.stop)) =>
              alphaStops' = [alphaStops EXCEPT ![teDragIndex + 1] = AlphaStop(n.stop, n.alpha)]
         /\ ("cme" \in Owners /\ IsInterior(colorStops, cmeDrag.dragIndex)
               /\ BetweenNeighbours(colorStops, cmeDrag.dragIndex, x * Pixel)) =>
              colorStops' = [colorStops EXCEPT ![cmeDrag.dragIndex + 1].stop = x * Pixel]]_vars

\* C24 witness: in a TransparencyEditor with stops at 0, 1 and beyond 1 the
\* middle stop was dragged from 1 to the middle of the canvas and from alpha
\* 1 to alpha 0.
C24_Witness ==
  /\ lastOp = "mousemove"
  /\ widget = "TransparencyEditor"
  /\ teIsDragging /\ teDragIndex = 1
  /\ alphaStops = <<AlphaStop(0, 0), AlphaStop(One \div 2, 0), AlphaStop(One + Pixel, 0)>>

\* The arrays s and t differ at most in the stop with index i.
OnlyChangedAt(s, t, i) ==
  /\ Len(t) = Len(s)
  /\ \A k \in 1..Len(s) : k # i + 1 => t[k] = s[k]
RightMouseDown == lastOp' \in {"cme.mousedown.right", "cme.mousedown.right.end",
                               "te.mousedown.right", "te.mousedown.right.end"}

\* C25: in a drag session a mousemove changes no stop but the one dragIndex
\* refers to, and pressing the right mouse button during the session does not
\* make dragIndex refer to another stop that the next mousemove would drag:
\* when dragIndex refers to an interior stop after the right-click, it is the
\* stop it referred to before.
C25_SessionMovesGrabbedStop ==
  [][ /\ lastOp' = "mousemove" =>
           /\ OnlyChangedAt(colorStops, colorStops', cmeDrag.dragIndex)
           /\ OnlyChangedAt(alphaStops, alphaStops', teDragIndex)
      /\ (RightMouseDown /\ cmeDrag.isDragging /\ "cme" \in Owners
            /\ IsInterior(colorStops', cmeDrag'.dragIndex)) =>
           At(colorStops', cmeDrag'.dragIndex) = At(colorStops, cmeDrag.dragIndex)
      /\ (RightMouseDown /\ teIsDragging /\ "te" \in Owners
            /\ IsInterior(alphaStops', teDragIndex')) =>
           At(alphaStops', teDragIndex') = At(alphaStops, teDragIndex) ]_vars

NoSession == ~teIsDragging /\ ~cmeDrag.isDragging

\* C26: once a mouseup has ended the drag session, and as long as only
\* mousemove events follow it, a mousemove changes no alpha stop and no colour
\* stop and calls no listener, whatever mousedown, mousemove and mouseup
\* events came before.
C26_NoMoveAfterMouseUp ==
  [][ (lastOp \in {"mouseup", "mousemove"} /\ NoSession /\ lastOp' = "mousemove") =>
        /\ alphaStops' = alphaStops
        /\ colorStops' = colorStops
        /\ notified' = <<>> ]_vars

\* C26 witness: two mousedowns without a mouseup left a mousemove listener on
\* the document that the mouseup did not abort, and a mousemove has run it.
C26_Witness ==
  /\ lastOp = "mousemove"
  /\ NoSession
  /\ moveListeners # <<>>

\* dragIndex i refers to a stop of s and, where the listener takes the stop
\* for an interior one, to a stop with a neighbour on either side.
RefersToStop(s, i) ==
  /\ Has(s, i)
  /\ (i # 0 /\ i # Len(s) - 1) => (Has(s, i - 1) /\ Has(s, i + 1))

\* C27: whenever a mousemove runs the drag listeners of an editor, the
\* editor's dragIndex refers to an existing stop, with both neighbours when
\* the stop is not the first or the last one, whatever was removed or
\* replaced since the mousedown.
C27_DragIndexRefersToStop ==
  [][ lastOp' = "mousemove" =>
        /\ "te" \in Owners => RefersToStop(alphaStops, teDragIndex)
        /\ "cme" \in Owners => RefersToStop(colorStops, cmeDrag.dragIndex) ]_vars

\* getRGB has sampled a discrete colour map with bins.
SampledDiscrete ==
  /\ lastOp = "te.getRGB"
  /\ colorMap.discrete = "true"
  /\ Truthy(colorMap.bins)

\* C28: the colour that getRGB returns for a position of a discrete colour
\* map is the colour of the bin of getColorMapBins whose bounds hold the
\* position, wherever the first and the last stop of the colour map are.
C28_PositionHasBinColor ==
  SampledDiscrete =>
    \A i \in 1..Len(getColorMapBins(colorMap)) :
      LET bin == getColorMapBins(colorMap)[i]
      IN  (bin.lowerBound <= returned.arg * Fine /\ returned.arg * Fine < bin.upperBound)
            => returned.value = bin.color

\* The bin that getColorMapBins returns last.
LastBin(cm) == getColorMapBins(cm)[Len(getColorMapBins(cm))]

\* C29: for a discrete colour map with n >= 2 bins and a position in [0,1],
\* getRGB samples the scale at k / (n - 1) for a whole number k from 0 to
\* n - 1, and at the position 1 it returns the colour of the last bin.
C29_SamplesWithinBins ==
  (SampledDiscrete /\ colorMap.bins.num >= 2
     /\ 0 <= returned.arg /\ returned.arg <= One) =>
    /\ \E k \in 0..(colorMap.bins.num - 1) :
         SamplePosition(colorMap, returned.arg) = Finite(k * One, colorMap.bins.num - 1)
    /\ returned.arg = One => returned.value = LastBin(colorMap).color

\* C30: the colour that getRGB returns is the colour that the stops and the
\* interpolation method of the colour map give at the time of the call, and
\* the scale that is used for it was made from these stops and this method.
C30_ColorFromCurrentStops ==
  lastOp = "te.getRGB" =>
    /\ returned.value = getColorFromColorMapAt(colorMap, returned.arg)
    /\ colorRangeCache = getColorRange(colorMap)

\* C31: setColorMap(getColorMap()) leaves the colour stops, the
\* interpolation method, discrete (as true or not true) and bins of a
\* ColorMapEditor as they were.
C31_OwnColorMapChangesNothing ==
  [][lastOp' = "cme.setColorMap.own" =>
       /\ colorStops' = colorStops
       /\ cmeSettings'.interpolationMethod = cmeSettings.interpolationMethod
       /\ (cmeSettings'.discrete = "true") = (cmeSettings.discrete = "true")
       /\ cmeSettings'.bins = cmeSettings.bins]_vars

PublicSetters ==
  {"cme.setDiscrete", "cme.setBins", "cme.setInterpolationMethods", "cme.setColorMap",
   "cme.setColorMap.own"}

\* C32: after every public setter of a ColorMapEditor the checkbox is checked
\* exactly when discrete is true, the bins field is disabled exactly when
\* discrete is not true and shows bins, and the select shows the
\* interpolation method.
C32_InputsMirrorSettings ==
  (widget = "ColorMapEditor" /\ lastOp \in PublicSetters) =>
    /\ cmeInputs.checked = (cmeSettings.discrete = "true")
    /\ cmeInputs.disabled = (cmeSettings.discrete # "true")
    /\ cmeInputs.bins = cmeSettings.bins
    /\ cmeInputs.select = cmeSettings.interpolationMethod


\* C33: a notification round invokes exactly the listeners that were
\* registered when the round started, each once and in the order of their
\* registration: a listener that a callback adds during the round is not
\* invoked by the iteration of that round, and a listener that a callback
\* removes during the round does not disturb the iteration over the others.
NotifyingOps == {"te.setAlphaStops", "cme.setColorStops"}
C33_RoundInvokesRegistered ==
  [][lastOp' \in NotifyingOps => Head(notified').ids = OwnCallbacks]_vars


\* C34: when the colour picker was opened for a stop A and is later opened
\* for a stop B, every later colour change of the picker, the setHEX call
\* that loads B's colour included, changes only the colour of B: the colour
\* of every stop other than the one the picker was opened for last stays as
\* it was.
PopupOps == {"cme.click", "cp.pick"}
Opened ==
  LET last == SelectSeq(cmePopup.callbacks, LAMBDA c : c.id = cmePopup.colorPickerListener)
  IN  IF last = <<>> THEN 0 - 1 ELSE Head(last).stop
ColorAt(stops, settings, pos) == getColorFromColorMapAt(CmeView(stops, settings), pos)
InsertedAt(old, new, i, stop) ==
  /\ new[i] = stop
  /\ old = [k \in 1..Len(old) |-> IF k < i THEN new[k] ELSE new[k + 1]]
C35_AddedStopHasColorOfMap ==
  [][\A x \in DownXs, y \in DownYs :
       (CmeMouseDown(0, x, y) /\ Len(colorStops') = Len(colorStops) + 1) =>
         LET pos == x * Pixel
             before == ColorAt(colorStops, cmeSettings, pos)
         IN  /\ \E i \in 1..Len(colorStops') :
                  InsertedAt(colorStops, colorStops', i, ColorStop(pos, before))
             /\ cmeSettings.discrete # "true" =>
                  ColorAt(colorStops', cmeSettings', pos) = before]_vars

\* A stop was added between two stops of different colours of a continuous
\* colour map.
C35_Witness ==
  /\ lastOp = "cme.mousedown.left"
  /\ cmeSettings.discrete # "true"
  /\ Len(colorStops) = 3
  /\ colorStops[2].color.fmt = "rgb"
  /\ colorStops[1].color.v # colorStops[3].color.v


\* C36: the listeners of a NumberInputField are invoked only when the stored
\* value changes: a setValue call or a wheel step whose clamped and rounded
\* result equals the current value invokes no listener, and setValue with
\* notifyObservers = false never invokes a listener.
NoListenerInvoked(rounds) == \A k \in 1..Len(rounds) : rounds[k].ids = <<>>
C36_NotifiedOnlyOnChange ==
  [][/\ (lastOp' \in {"nif.setValue", "nif.wheel"} /\ nifValue' = nifValue) =>
          NoListenerInvoked(notified')
     /\ lastOp' = "nif.setValue.silent" => NoListenerInvoked(notified')]_vars

====
